---- MODULE Spec2Model ----
(***************************************************************************)
(* Air-quality platform: the raw-queue worker (backend/app/worker.py), the *)
(* time-series store adapter's write side (backend/app/db_client.py), the  *)
(* threshold anomaly evaluator (backend/app/anomaly_detection.py), the     *)
(* retrying publisher (backend/app/queue_client.py), the ingest endpoint,  *)
(* the broadcast consumer and the WebSocket hub (backend/app/main.py,      *)
(* backend/app/websocket_manager.py).                                      *)
(*                                                                         *)
(* Numbers: latitudes, longitudes and pollutant values are integers; an    *)
(* Optional[float] is a set with at most one element ({} is None).  Time   *)
(* is in microseconds, the resolution of datetime.now().                   *)
(***************************************************************************)
EXTENDS Integers, Sequences, FiniteSets, TLC

\* ------------------------------------------------------------------ bounds
\* Messages that producers may put on the raw queue in the worker specification.
MaxMsgs == 2
\* Messages of the burst that exercises the prefetch window.
MaxBurst == 11
\* The clock stops advancing here (microseconds).
MaxClock == 1500
\* One step of the clock (microseconds).
TickUs == 1500
\* HTTP requests sent to the API in the publisher specification.
MaxCalls == 2
\* Requests and raw messages sent in the ingest pipeline specification.
MaxRequests == 2
\* WebSocket clients that may ever connect.
MaxClients == 2
\* Messages that may ever be published to the broadcast exchange, by the test
\* endpoint and by others.
MaxBroadcasts == 1
\* Hazardous readings sent in the broadcast specification.
MaxHazards == 1
\* connections the broker or the network takes down while the API runs
MaxDrops == 1
\* anomalies other publishers put on the broadcast exchange
MaxAnomalies == 2
\* the same where one wave of sends is looked at
MaxWaves == 1
\* the most spatial queries made
MaxQueries == 1
\* readings in one aggregation
MaxPoints == 3
\* significant bits of a floating-point number
MantissaBits == 6

\* -------------------------------------------------------- program constants
PREFETCH_COUNT == 10
POOL_MAX_SIZE == 15
\* retries = 3 in publish_message_async
PublishRetries == 3
threshold_pm25_hazardous == 250
threshold_pm10_hazardous == 420
threshold_no2_hazardous == 200
\* WritePrecision.MS: a point's time is kept to the millisecond.
UsPerMs == 1000
\* settings.geohash_precision_storage, the length of the geohash tag
geohash_precision_storage == 7

None == {}
Some(v) == {v}

Pollutants == <<"pm25", "pm10", "no2", "so2", "o3">>
PollutantSet == {"pm25", "pm10", "no2", "so2", "o3"}

Conns == 1..POOL_MAX_SIZE

\* ------------------------------------------------------------------ inputs
\* A JSON object as the worker sees it: every key it looks at, {} when the key
\* is absent (or null); "ts" is a timestamp the sender put in the payload.
Payload(lat, lon, pm25, pm10, no2, so2, o3, ts) ==
    [latitude |-> lat, longitude |-> lon, pm25 |-> pm25, pm10 |-> pm10,
     no2 |-> no2, so2 |-> so2, o3 |-> o3, ts |-> ts]

EmptyPayload == Payload(None, None, None, None, None, None, None, None)

PayloadSamples ==
    { Payload(Some(41), Some(29), None, None, None, None, None, Some(7)),
      Payload(Some(41), Some(29), Some(300), Some(500), None, None, None, Some(7)),
      Payload(Some(41), Some(29), Some(250), Some(421), None, Some(5), None, None),
      Payload(Some(41), Some(29), None, None, None, Some(5), None, None),
      Payload(Some(91), Some(29), Some(12), None, None, None, None, None),
      Payload(Some(41), Some(29), Some(0 - 1), None, None, None, None, None) }

\* A message body on the raw queue: bytes that are not UTF-8, text that is not
\* JSON, a JSON value that is not an object, or a JSON object.
Body(kind, data) == [kind |-> kind, data |-> data]

BodySamples ==
    { Body("undecodable", EmptyPayload), Body("badjson", EmptyPayload),
      Body("nondict", EmptyPayload) }
    \cup { Body("object", p) : p \in PayloadSamples }


\* ------------------------------------------------------------------- state
VARIABLES
    now,                    \* the worker host's UTC clock, microseconds
    write_api,              \* db_client.write_api is usable (the store client was built)
    rawQueue,               \* the durable raw queue: message ids ready for delivery, FIFO
    msg,                    \* the messages ever put on the raw queue: body, handler position, what the handler did
    unacked,                \* delivered to the worker and neither acked nor rejected
    wpc,                    \* start_consuming's position
    qos,                    \* the worker channel's prefetch_count (0: no limit)
    air_quality,            \* measurement air_quality: the points in the store
    air_quality_anomalies,  \* measurement air_quality_anomalies
    uuid_seq,               \* uuid4 values handed out so far
    budget,                 \* messages and requests the environment may still send
    broker_flaky,           \* broker operations of the API may fail
    api,                    \* the API process: "down", "running", "closing", "stopped"
    connection_pool,        \* queue_client.connection_pool: "none" or "pool"
    pool,                   \* the pool's LifoQueue of connections, last in first out
    conn_state,             \* per connection: "absent", "open", "closed"
    call,                   \* the ingest requests received: the handler and its publish call
    bcast,                  \* consume_broadcasts' position
    exchange_log,           \* every payload published to the broadcast exchange, in order
    bqueue,                 \* the replica's exclusive queue bound to the exchange
    bmsg,                   \* the broadcast messages delivered to on_message
    active_connections,     \* manager.active_connections: the registered connection ids
    connection_counter,     \* manager.connection_counter
    ws,                     \* the WebSocket sessions: the endpoint's position, the frames the client got
    tests,                  \* the responses of POST /test/broadcast-anomaly
    stop_event,             \* worker main's stop_event is set: a shutdown signal was handled
    consumer,               \* the broadcast consumer's broker connections: open now, lost so far
    query                   \* the spatial queries made: the box, the precision, the cells computed

workerVars == <<now, rawQueue, msg, unacked, wpc, qos, uuid_seq, stop_event>>
storeVars == <<write_api, air_quality, air_quality_anomalies, query>>
poolVars == <<connection_pool, pool, conn_state>>
apiVars == <<api, broker_flaky, call>>
broadcastVars == <<bcast, exchange_log, bqueue, bmsg, consumer>>
hubVars == <<active_connections, connection_counter, ws>>
pushVars == <<broadcastVars, hubVars, tests>>
vars == <<workerVars, storeVars, budget, poolVars, apiVars, pushVars>>

\* ------------------------------------------------------------------ models.py
InRange(opt, lo, hi) == opt # None /\ \A v \in opt : lo <= v /\ v <= hi

NonNegative(opt) == \A v \in opt : v >= 0

\* IngestRequest(**data): latitude and longitude are required and bounded, a
\* pollutant is absent or >= 0; keys the model does not declare are ignored.
IngestRequestValid(data) ==
    /\ InRange(data.latitude, 0 - 90, 90)
    /\ InRange(data.longitude, 0 - 180, 180)
    /\ \A k \in PollutantSet : NonNegative(data[k])

\* The validated IngestRequest: the declared fields only.
IngestRequest(data) ==
    [latitude |-> data.latitude, longitude |-> data.longitude, pm25 |-> data.pm25,
     pm10 |-> data.pm10, no2 |-> data.no2, so2 |-> data.so2, o3 |-> data.o3]

TheValue(opt) == CHOOSE v \in opt : TRUE

\* ------------------------------------------------------------- worker.py 59-68
\* The payload's own timestamp instead of the worker's clock.
ReadingTimestampFromPayload(data, clock) == IF data.ts # None THEN TheValue(data.ts) ELSE clock

\* timestamp=datetime.now(timezone.utc)
ReadingTimestamp(data, clock) == clock

AirQualityReading(data, clock) ==
    [latitude |-> TheValue(data.latitude), longitude |-> TheValue(data.longitude),
     timestamp |-> ReadingTimestamp(data, clock),
     pm25 |-> data.pm25, pm10 |-> data.pm10, no2 |-> data.no2,
     so2 |-> data.so2, o3 |-> data.o3]

\* ------------------------------------------------------------------ db_client.py
\* .time(timestamp_to_write, WritePrecision.MS)
TruncMs(t) == (t \div UsPerMs) * UsPerMs

NonNullFields(reading) == {k \in PollutantSet : reading[k] # None}

\* ------------------------------------------------ the geohash library
\* A geohash is the sequence of its characters, each the character's index in
\* the base-32 alphabet 0123456789bcdefghjkmnpqrstuvwxyz.  Coordinates are in
\* half degrees here, so that the centre of a box of whole degrees is exact.
Pow2(n) == 2 ^ n

\* Of the 5p bits of a geohash the even ones (from 0) halve the longitude
\* range, the odd ones the latitude range.
LonBits(p) == (5 * p + 1) \div 2

LatBits(p) == (5 * p) \div 2

\* geohash.encode raises for a latitude of 90 or more or below -90.
EncodeRaises(lat2) == lat2 >= 180 \/ lat2 < 0 - 180

\* geohash.encode(latitude, longitude, precision) for a latitude it accepts:
\* the longitude is brought into [-180, 180), the point's column and row among
\* the cells of the precision are found, and their bits are interleaved, most
\* significant first, five to a character.
EncodeHalves(lat2, lon2, p) ==
    LET WrapLon == IF lon2 >= 360 THEN lon2 - 720
                   ELSE IF lon2 < 0 - 360 THEN lon2 + 720 ELSE lon2
        LonIndex == ((WrapLon + 360) * Pow2(LonBits(p))) \div 720
        LatIndex == ((lat2 + 180) * Pow2(LatBits(p))) \div 360
        BitOf(x, width, i) == (x \div Pow2(width - 1 - i)) % 2
        CodeBit(k) == IF k % 2 = 0 THEN BitOf(LonIndex, LonBits(p), k \div 2)
                      ELSE BitOf(LatIndex, LatBits(p), k \div 2)
        Code == [c \in 1..p |->
                    16 * CodeBit(5 * (c - 1)) + 8 * CodeBit(5 * (c - 1) + 1)
                    + 4 * CodeBit(5 * (c - 1) + 2) + 2 * CodeBit(5 * (c - 1) + 3)
                    + CodeBit(5 * (c - 1) + 4)]
    IN SubSeq(Code, 1, p)

\* The same for whole degrees.
Encode(lat, lon, p) == EncodeHalves(2 * lat, 2 * lon, p)

\* geohash.bbox(h) against the target box (409-419): the cell of h, column col
\* and row row of its precision, has a point in common with the box.  The
\* cell's bounds are fractions; the comparisons are made on their numerators.
Intersects(h, box) ==
    LET n == LonBits(Len(h))
        m == LatBits(Len(h))
        Bit(k) == (h[(k \div 5) + 1] \div Pow2(4 - (k % 5))) % 2
        Index(parity, k, acc) ==
            LET RECURSIVE Go(_, _)
                Go(j, a) == IF j = 5 * Len(h) THEN a
                            ELSE Go(j + 1, IF j % 2 = parity THEN 2 * a + Bit(j) ELSE a)
            IN Go(k, acc)
        col == Index(0, 0, 0)
        row == Index(1, 0, 0)
    IN /\ 180 * row - 90 * Pow2(m) <= box.max_lat * Pow2(m)
       /\ 180 * (row + 1) - 90 * Pow2(m) >= box.min_lat * Pow2(m)
       /\ 360 * col - 180 * Pow2(n) <= box.max_lon * Pow2(n)
       /\ 360 * (col + 1) - 180 * Pow2(n) >= box.min_lon * Pow2(n)

\* check_hash (402-435): a cell outside the box is dropped with all below it, a
\* cell of the target precision is a result, a shorter one is split into its
\* 32 children.  checked_hashes only saves work.
RECURSIVE check_hash(_, _, _)
check_hash(h, box, precision) ==
    IF ~Intersects(h, box) THEN {}
    ELSE IF Len(h) = precision THEN {h}
    ELSE IF Len(h) < precision
         THEN UNION { check_hash(Append(h, char), box, precision) : char \in 0..31 }
    ELSE {}

\* start_precision (443)
start_precision(precision) ==
    IF precision > 1 THEN (IF precision < 4 THEN precision ELSE 4) ELSE 1

\* initial_hashes (438-450): the codes of the centre and of the four corners
\* at the start precision; a point geohash.encode refuses is left out.
initial_hashes(box, precision) ==
    LET points_to_encode ==
            { <<box.min_lat + box.max_lat, box.min_lon + box.max_lon>>,
              <<2 * box.min_lat, 2 * box.min_lon>>, <<2 * box.min_lat, 2 * box.max_lon>>,
              <<2 * box.max_lat, 2 * box.min_lon>>, <<2 * box.max_lat, 2 * box.max_lon>> }
    IN { EncodeHalves(pt[1], pt[2], start_precision(precision)) :
            pt \in { q \in points_to_encode :
                        /\ 0 - 180 <= q[1] /\ q[1] <= 180
                        /\ 0 - 360 <= q[2] /\ q[2] <= 360
                        /\ ~EncodeRaises(q[1]) } }

\* calculate_geohashes_for_bbox (387-472): with no seed, the centre's code at
\* the target precision or nothing (452-464); otherwise what check_hash finds
\* under the seeds (467-470).
calculate_geohashes_for_bbox(box, precision) ==
    IF initial_hashes(box, precision) = {}
    THEN IF EncodeRaises(box.min_lat + box.max_lat) THEN {}
         ELSE {EncodeHalves(box.min_lat + box.max_lat, box.min_lon + box.max_lon, precision)}
    ELSE UNION { check_hash(h, box, precision) : h \in initial_hashes(box, precision) }

\* The boxes asked for: whole degrees, south-west to north-east, from points
\* that put the box inside one cell, across several, or at the edges of the
\* coordinate ranges.
BoxSamples ==
    { [min_lat |-> a, max_lat |-> b, min_lon |-> c, max_lon |-> d] :
        a \in {0 - 90, 0, 41}, b \in {41, 42, 90}, c \in {0 - 180, 29}, d \in {29, 30, 180} }

PrecisionSamples == {1, 2, 5}

\* A spatial query computes the cells that cover its box.
BBoxQuery ==
    /\ Len(query) < MaxQueries
    /\ \E box \in BoxSamples, precision \in PrecisionSamples :
        query' = Append(query, [box |-> box, precision |-> precision,
                                cells |-> calculate_geohashes_for_bbox(box, precision)])
    /\ UNCHANGED <<write_api, air_quality, air_quality_anomalies>>
    /\ UNCHANGED <<workerVars, budget, poolVars, apiVars, pushVars>>

\* ----------------------------------------------------- aggregation.py 10-134
\* Floating point.  A float of the model is an integer with at most
\* MantissaBits significant bits (a double has 53); an arithmetic result is
\* rounded to the nearest float, a tie to the one with the even mantissa.
FloatRound(n) ==
    LET a == IF n < 0 THEN 0 - n ELSE n
        e == CHOOSE x \in 0..24 :
                /\ a \div Pow2(x) < Pow2(MantissaBits)
                /\ x = 0 \/ a \div Pow2(x - 1) >= Pow2(MantissaBits)
        q == a \div Pow2(e)
        r == a % Pow2(e)
        up == 2 * r > Pow2(e) \/ (2 * r = Pow2(e) /\ q % 2 = 1)
        m == (IF up THEN q + 1 ELSE q) * Pow2(e)
    IN IF n < 0 THEN 0 - m ELSE m

\* x += y on floats
FloatAdd(x, y) == FloatRound(x + y)

\* round(num / den, d) in units of 10^-d (scale is 10^d): the nearest one, a
\* tie to the even one.  The quotient and its rounding to d decimals are taken
\* as one rounding of the exact quotient.
RoundTo(num, den, scale) ==
    LET q == (num * scale) \div den
        r == (num * scale) - q * den
    IN IF 2 * r > den \/ (2 * r = den /\ q % 2 = 1) THEN q + 1 ELSE q

\* AggregatedData.__init__ (11-24)
AggregatedData ==
    [lat_sum |-> 0, lon_sum |-> 0,
     sum |-> [k \in PollutantSet |-> 0], count |-> [k \in PollutantSet |-> 0],
     total_count |-> 0]

\* The sum of a metric replaced by the reading's value instead of increased by it.
add_reading_last_value(agg, reading) ==
    [lat_sum |-> FloatAdd(agg.lat_sum, reading.latitude),
     lon_sum |-> FloatAdd(agg.lon_sum, reading.longitude),
     sum |-> [k \in PollutantSet |->
                IF reading[k] # None THEN TheValue(reading[k]) ELSE agg.sum[k]],
     count |-> [k \in PollutantSet |->
                IF reading[k] # None THEN agg.count[k] + 1 ELSE agg.count[k]],
     total_count |-> agg.total_count + 1]

\* AggregatedData.add_reading (26-48)
add_reading(agg, reading) ==
    [lat_sum |-> FloatAdd(agg.lat_sum, reading.latitude),
     lon_sum |-> FloatAdd(agg.lon_sum, reading.longitude),
     sum |-> [k \in PollutantSet |->
                IF reading[k] # None THEN FloatAdd(agg.sum[k], TheValue(reading[k]))
                ELSE agg.sum[k]],
     count |-> [k \in PollutantSet |->
                IF reading[k] # None THEN agg.count[k] + 1 ELSE agg.count[k]],
     total_count |-> agg.total_count + 1]

\* Every average divided by the cell's total count.
get_aggregated_point_by_total(agg, geohash_str) ==
    IF agg.total_count = 0 THEN None
    ELSE Some([geohash |-> geohash_str,
               latitude |-> RoundTo(agg.lat_sum, agg.total_count, 1000000),
               longitude |-> RoundTo(agg.lon_sum, agg.total_count, 1000000),
               avg |-> [k \in PollutantSet |->
                          IF agg.count[k] > 0
                          THEN Some(RoundTo(agg.sum[k], agg.total_count, 100))
                          ELSE None],
               count |-> agg.total_count])

\* AggregatedData.get_aggregated_point (50-79): the coordinates in millionths
\* of a degree, the averages in hundredths.
get_aggregated_point(agg, geohash_str) ==
    IF agg.total_count = 0 THEN None
    ELSE Some([geohash |-> geohash_str,
               latitude |-> RoundTo(agg.lat_sum, agg.total_count, 1000000),
               longitude |-> RoundTo(agg.lon_sum, agg.total_count, 1000000),
               avg |-> [k \in PollutantSet |->
                          IF agg.count[k] > 0
                          THEN Some(RoundTo(agg.sum[k], agg.count[k], 100))
                          ELSE None],
               count |-> agg.total_count])

\* The loop of aggregate_by_geohash (106-119) after the first n points: the
\* dict aggregated_cells as the sequence of its items, in insertion order.  A
\* point whose geohash.encode raises is skipped.
RECURSIVE aggregated_cells(_, _, _)
aggregated_cells(points, precision, n) ==
    IF n = 0 THEN <<>>
    ELSE LET cells == aggregated_cells(points, precision, n - 1)
             point == points[n]
             gh == Encode(point.latitude, point.longitude, precision)
         IN IF EncodeRaises(2 * point.latitude) THEN cells
            ELSE IF \E i \in DOMAIN cells : cells[i].gh = gh
            THEN [i \in DOMAIN cells |->
                    IF cells[i].gh = gh
                    THEN [cells[i] EXCEPT !.data = add_reading(@, point)]
                    ELSE cells[i]]
            ELSE Append(cells, [gh |-> gh, data |-> add_reading(AggregatedData, point)])

\* aggregate_by_geohash (82-134)
aggregate_by_geohash(points, precision, max_cells) ==
    IF points = <<>> THEN <<>>
    ELSE LET cells == aggregated_cells(points, precision, Len(points))
             result_list ==
                [i \in DOMAIN cells |->
                    TheValue(get_aggregated_point(cells[i].data, cells[i].gh))]
         IN IF max_cells # None /\ Len(result_list) > TheValue(max_cells)
            THEN SubSeq(result_list, 1, TheValue(max_cells))
            ELSE result_list

\* main.py 199-207
zoom_to_geohash_precision_backend(zoom) ==
    IF zoom = None THEN 4
    ELSE LET z == TheValue(zoom)
         IN IF z <= 3 THEN 2 ELSE IF z <= 5 THEN 3 ELSE IF z <= 7 THEN 4
            ELSE IF z <= 10 THEN 5 ELSE IF z <= 13 THEN 6 ELSE 7

\* The readings handed to the aggregation: two places one degree apart and the
\* pole, a pollutant that is missing, small (two values) or large, another
\* that is missing or not.
Reading(lat, pm25, pm10) ==
    [latitude |-> lat, longitude |-> 29, timestamp |-> 0,
     pm25 |-> pm25, pm10 |-> pm10, no2 |-> None, so2 |-> None, o3 |-> None]

ReadingSamples ==
    { Reading(41, v[1], v[2]) :
        v \in {<<Some(1), None>>, <<Some(2), Some(3)>>, <<Some(64), Some(3)>>,
              <<None, Some(3)>>} }
    \cup { Reading(42, v[1], v[2]) : v \in {<<Some(1), None>>, <<Some(2), Some(3)>>} }
    \cup {Reading(90, Some(1), None)}

ReadingLists == UNION { [1..n -> ReadingSamples] : n \in 0..MaxPoints }

ZoomSamples == {None, Some(3)}

\* An aggregation of a list of readings, as the heatmap endpoint asks for it
\* (main.py 249-257) or with a limit on the cells.  One aggregation is looked at.
Aggregate ==
    /\ query = <<>>
    /\ \E points \in ReadingLists, zoom \in ZoomSamples, max_cells \in {None, Some(1)} :
        LET precision == zoom_to_geohash_precision_backend(zoom)
        IN query' = Append(query,
                [points |-> points, precision |-> precision, max_cells |-> max_cells,
                 result |-> aggregate_by_geohash(points, precision, max_cells)])
    /\ UNCHANGED <<write_api, air_quality, air_quality_anomalies>>
    /\ UNCHANGED <<workerVars, budget, poolVars, apiVars, pushVars>>

\* -------------------------------------------- db_client.py, the query side
\* query_api is built together with write_api (29-31) and is None when the
\* client could not be built (49-52).
query_api == write_api

\* What query_api.query does: returns the rows, or raises an InfluxDBError or
\* another exception.
QueryOutcomes == {"ok", "influx_error", "other_error"}

ValidBox(box) == box.min_lat < box.max_lat /\ box.min_lon < box.max_lon

\* The loop of query_raw_points_in_bbox over the first n rows (118-152): a row
\* whose time and coordinates were seen already is left out.
RECURSIVE raw_results(_, _)
raw_results(rows, n) ==
    IF n = 0 THEN <<>>
    ELSE IF \E m \in 1..(n - 1) :
                /\ rows[m].timestamp = rows[n].timestamp
                /\ rows[m].latitude = rows[n].latitude
                /\ rows[m].longitude = rows[n].longitude
    THEN raw_results(rows, n - 1)
    ELSE Append(raw_results(rows, n - 1), rows[n])

\* query_raw_points_in_bbox (55-166); rows is what the store holds for the
\* box and the window.
query_raw_points_in_bbox(box, outcome, rows) ==
    IF ~query_api THEN <<>>
    ELSE IF ~ValidBox(box) THEN <<>>
    ELSE IF outcome # "ok" THEN <<>>
    ELSE raw_results(rows, Len(rows))

\* sum(values) over the first n points' values of pollutant k (504-512)
RECURSIVE values_sum(_, _, _)
values_sum(raw_points, k, n) ==
    IF n = 0 THEN 0
    ELSE IF raw_points[n][k] # None
    THEN FloatAdd(values_sum(raw_points, k, n - 1), TheValue(raw_points[n][k]))
    ELSE values_sum(raw_points, k, n - 1)

\* calculate_avg (511-512) of the pollutant's values: the quotient sum / len,
\* kept as its two terms, or None.
calculate_avg(raw_points, k) ==
    LET len == Cardinality({n \in DOMAIN raw_points : raw_points[n][k] # None})
    IN IF len = 0 THEN None
       ELSE Some([sum |-> values_sum(raw_points, k, Len(raw_points)), len |-> len])

\* query_density_in_bbox (476-533)
query_density_in_bbox(box, outcome, rows) ==
    IF ~query_api THEN None
    ELSE LET raw_points == query_raw_points_in_bbox(box, outcome, rows)
         IN IF raw_points = <<>> THEN None
            ELSE Some([average |-> [k \in PollutantSet |-> calculate_avg(raw_points, k)],
                       data_points_count |-> Len(raw_points)])

\* query_anomalies_from_db (245-348); rows are the anomalies of the range.
query_anomalies_from_db(outcome, rows) ==
    IF ~query_api THEN <<>>
    ELSE IF outcome # "ok" THEN <<>>
    ELSE rows

valid_parameters == {"pm25", "pm10", "no2", "so2", "o3", "co"}

\* query_location_history (621-699); rows are the window means of the cell,
\* returned in ascending time.
query_location_history(parameter, outcome, rows) ==
    IF ~query_api THEN <<>>
    ELSE IF parameter \notin valid_parameters THEN <<>>
    ELSE IF outcome # "ok" THEN <<>>
    ELSE SortSeq(rows, LAMBDA a, b : a.timestamp < b.timestamp)

\* query_latest_location_data (704-864); rows is the last point of the cell
\* if there is one, nearby the points within 50 km.
query_latest_location_data(lat, lon, outcome, rows, nearby) ==
    IF ~query_api THEN None
    ELSE IF EncodeRaises(2 * lat) THEN None
    ELSE IF outcome # "ok" THEN None
    ELSE IF rows # <<>> THEN Some(rows[1])
    ELSE IF nearby = <<>> THEN None
    ELSE Some([latitude |-> lat, longitude |-> lon,
               timestamp |-> nearby[1].timestamp,
               average |-> [k \in PollutantSet |-> calculate_avg(nearby, k)]])

\* ------------------------------------------------ main.py, the query endpoints
Response(status_code, body) == [status |-> status_code, body |-> body]

\* get_heatmap_data (217-260)
get_heatmap_data(box, zoom, outcome, rows) ==
    IF ~ValidBox(box) THEN Response(400, "detail")
    ELSE LET raw_readings == query_raw_points_in_bbox(box, outcome, rows)
         IN IF raw_readings = <<>> THEN Response(200, <<>>)
            ELSE Response(200, aggregate_by_geohash(
                    raw_readings, zoom_to_geohash_precision_backend(zoom), None))

\* get_pollution_density_for_bbox (314-344)
get_pollution_density_for_bbox(box, outcome, rows) ==
    IF ~ValidBox(box) THEN Response(400, "detail")
    ELSE Response(200, query_density_in_bbox(box, outcome, rows))

\* list_anomalies (278-305)
list_anomalies(outcome, rows) == Response(200, query_anomalies_from_db(outcome, rows))

\* get_location_history_by_geohash (460-497)
get_location_history_by_geohash(parameter, outcome, rows) ==
    IF parameter \notin valid_parameters THEN Response(400, "detail")
    ELSE Response(200, query_location_history(parameter, outcome, rows))

\* get_air_quality_for_location (353-389)
get_air_quality_for_location(lat, lon, outcome, rows, nearby) ==
    Response(200, query_latest_location_data(lat, lon, outcome, rows, nearby))

\* What the store returns for a box: readings of different times.
RECURSIVE Stamped(_, _)
Stamped(points, n) ==
    IF n = 0 THEN <<>>
    ELSE Append(Stamped(points, n - 1), [points[n] EXCEPT !.timestamp = n])

RowLists == { Stamped(points, Len(points)) : points \in ReadingLists }

QueryBoxes ==
    { [min_lat |-> 41, max_lat |-> b, min_lon |-> 29, max_lon |-> 30] : b \in {41, 90} }

\* Window means and anomalies as the store returns them.
HistoryRows ==
    UNION { [1..n -> { [timestamp |-> t, value |-> 12] : t \in 1..2 }] : n \in 0..2 }

AnomalyRows == { <<>>, <<[id |-> 1]>>, <<[id |-> 2], [id |-> 1]>> }

\* One request to a query endpoint: what was asked, whether the store
\* operation was called when the client was None or raised, and the response.
Asked(endpoint, called, outcome, rows, response) ==
    query' = <<[endpoint |-> endpoint, rows |-> rows,
                store_failed |-> called /\ (~query_api \/ outcome # "ok"),
                response |-> response]>>

HeatmapRequest ==
    /\ query = <<>>
    /\ \E box \in QueryBoxes, zoom \in ZoomSamples, outcome \in QueryOutcomes, rows \in RowLists :
        Asked("heatmap_data", ValidBox(box), outcome, rows,
              get_heatmap_data(box, zoom, outcome, rows))
    /\ UNCHANGED <<write_api, air_quality, air_quality_anomalies>>
    /\ UNCHANGED <<workerVars, budget, poolVars, apiVars, pushVars>>

DensityRequest ==
    /\ query = <<>>
    /\ \E box \in QueryBoxes, outcome \in QueryOutcomes, rows \in RowLists :
        Asked("pollution_density", ValidBox(box), outcome, rows,
              get_pollution_density_for_bbox(box, outcome, rows))
    /\ UNCHANGED <<write_api, air_quality, air_quality_anomalies>>
    /\ UNCHANGED <<workerVars, budget, poolVars, apiVars, pushVars>>

AnomaliesRequest ==
    /\ query = <<>>
    /\ \E outcome \in QueryOutcomes, rows \in AnomalyRows :
        Asked("anomalies", TRUE, outcome, rows, list_anomalies(outcome, rows))
    /\ UNCHANGED <<write_api, air_quality, air_quality_anomalies>>
    /\ UNCHANGED <<workerVars, budget, poolVars, apiVars, pushVars>>

HistoryRequest ==
    /\ query = <<>>
    /\ \E parameter \in {"pm25", "co2"}, outcome \in QueryOutcomes, rows \in HistoryRows :
        Asked("history", parameter \in valid_parameters, outcome, rows,
              get_location_history_by_geohash(parameter, outcome, rows))
    /\ UNCHANGED <<write_api, air_quality, air_quality_anomalies>>
    /\ UNCHANGED <<workerVars, budget, poolVars, apiVars, pushVars>>

LocationRequest ==
    /\ query = <<>>
    /\ \E lat \in {41, 90}, outcome \in QueryOutcomes,
          rows \in {r \in RowLists : Len(r) <= 1}, nearby \in {r \in RowLists : Len(r) <= 2} :
        Asked("location", TRUE, outcome, rows,
              get_air_quality_for_location(lat, 29, outcome, rows, nearby))
    /\ UNCHANGED <<write_api, air_quality, air_quality_anomalies>>
    /\ UNCHANGED <<workerVars, budget, poolVars, apiVars, pushVars>>

\* geohash.encode at the storage precision (557-562) for the coordinates the
\* producers send and the encoder accepts, as a table of <<point, code>>
\* entries computed once.
StorageCodes ==
    {<<pt, Encode(pt[1], pt[2], geohash_precision_storage)>> :
        pt \in {0 - 90, 41} \X {0 - 180, 29, 180}}

\* calculated_geohash of write_air_quality_data (553-570): the code at the
\* storage precision, or None when geohash.encode raised.
GeohashTag(reading) ==
    IF EncodeRaises(2 * reading.latitude) THEN None
    ELSE LET entry == CHOOSE e \in StorageCodes :
                              e[1] = <<reading.latitude, reading.longitude>>
         IN Some(entry[2])

\* The point write_air_quality_data builds (574-594): the latitude and longitude
\* tags (the numbers themselves), the geohash tag if there is one (580-581),
\* the time and the fields.  The geohash tag is a function of the two
\* coordinates, so it does not change which points share a series.
ReadingPoint(reading) ==
    [latitude |-> reading.latitude, longitude |-> reading.longitude,
     geohash |-> GeohashTag(reading),
     time |-> TruncMs(reading.timestamp),
     fields |-> [k \in PollutantSet |-> reading[k]]]

SameSeries(p, q) ==
    p.latitude = q.latitude /\ p.longitude = q.longitude /\ p.time = q.time

\* The store after a point is written: a point of the same series and time takes
\* the new fields and keeps its others.
StoreAfterWrite(store, point) ==
    IF \E q \in store : SameSeries(q, point)
    THEN LET q == CHOOSE q \in store : SameSeries(q, point)
         IN (store \ {q}) \cup
            {[q EXCEPT !.fields =
                [k \in PollutantSet |->
                    IF point.fields[k] # None THEN point.fields[k] ELSE q.fields[k]]]}
    ELSE store \cup {point}

\* What write_api.write does: "ok", an InfluxDBError that carries the HTTP
\* response, an InfluxDBError without one, or any other exception.
InfluxOutcomes == {"ok", "influx_error", "influx_error_no_response", "other_error"}

\* The check for a reading without fields is missing: the empty point is written.
WriteReadingResultNoSkip(usable, reading, outcome) ==
    IF ~usable THEN [ret |-> "false", wrote |-> FALSE, skipped |-> FALSE]
    ELSE IF outcome = "ok" THEN [ret |-> "true", wrote |-> TRUE, skipped |-> FALSE]
    ELSE [ret |-> "false", wrote |-> FALSE, skipped |-> FALSE]

\* write_air_quality_data's result: "true", "false", "raise" (the handler of
\* InfluxDBError reads e.response.headers, which fails when response is None),
\* with wrote: whether the point reached the store.
WriteReadingResult(usable, reading, outcome) ==
    IF ~usable THEN [ret |-> "false", wrote |-> FALSE, skipped |-> FALSE]
    ELSE IF NonNullFields(reading) = {} THEN [ret |-> "true", wrote |-> FALSE, skipped |-> TRUE]
    ELSE IF outcome = "ok" THEN [ret |-> "true", wrote |-> TRUE, skipped |-> FALSE]
    ELSE IF outcome = "influx_error_no_response"
         THEN [ret |-> "raise", wrote |-> FALSE, skipped |-> FALSE]
    ELSE [ret |-> "false", wrote |-> FALSE, skipped |-> FALSE]

AnomalyPoint(anomaly) ==
    [latitude |-> anomaly.latitude, longitude |-> anomaly.longitude,
     parameter |-> anomaly.parameter, id |-> anomaly.id,
     value |-> anomaly.value, description |-> anomaly.description,
     time |-> TruncMs(anomaly.timestamp)]

\* write_anomaly_data's result: every error of the write is caught and is False.
WriteAnomalyResult(usable, outcome) ==
    IF ~usable THEN "false" ELSE IF outcome = "ok" THEN "true" ELSE "false"

\* ---------------------------------------------------------- anomaly_detection.py
Threshold(parameter) ==
    CASE parameter = "pm25" -> threshold_pm25_hazardous
      [] parameter = "pm10" -> threshold_pm10_hazardous
      [] parameter = "no2" -> threshold_no2_hazardous

CheckedParameters == <<"pm25", "pm10", "no2">>

\* The comparison with >= in place of > (17, 25, 33).
AnomaliesFoundInclusive(reading) ==
    SelectSeq(CheckedParameters,
              LAMBDA k : reading[k] # None /\ TheValue(reading[k]) >= Threshold(k))

\* anomalies_found: the checked parameters whose value exceeds the threshold, in
\* source order.
AnomaliesFound(reading) ==
    SelectSeq(CheckedParameters,
              LAMBDA k : reading[k] # None /\ TheValue(reading[k]) > Threshold(k))

\* check_thresholds: None, or the Anomaly of the first exceeding parameter.
check_thresholds(reading, id) ==
    IF AnomaliesFound(reading) = <<>> THEN None
    ELSE LET k == Head(AnomaliesFound(reading))
         IN Some([id |-> id, latitude |-> reading.latitude,
                  longitude |-> reading.longitude, timestamp |-> reading.timestamp,
                  parameter |-> k, value |-> TheValue(reading[k]),
                  description |-> <<k, TheValue(reading[k]), Threshold(k)>>])


\* ------------------------------------------------------- worker.py: the handler
NoMsg ==
    [pc |-> "absent", body |-> Body("badjson", EmptyPayload), reading |-> None,
     stamped |-> None, anomaly |-> None, trace |-> <<>>, write |-> "none",
     wrote |-> FALSE, skipped |-> FALSE, detect |-> "none", anomaly_write |-> "none",
     acks |-> 0, nacks |-> 0, requeues |-> 0, subscribers |-> {}]

DecodeOk(body) == body.kind # "undecodable"

ParseOk(body) == body.kind # "badjson"

ValidateOk(body) == body.kind = "object" /\ IngestRequestValid(body.data)

\* The anomaly write's exception handler is missing.
OnFailureAnomalyWriteEscapes(step) ==
    IF step = "anomaly_write" THEN "propagate"
    ELSE IF step \in {"detect"} THEN "continue" ELSE "exit"

\* A failed reading write is logged and the handler goes on.
OnFailureWriteContinues(step) ==
    IF step \in {"write", "detect", "anomaly_write"} THEN "continue" ELSE "exit"

\* Where a failing step of process_message leads: "exit" leaves the try block
\* through an except clause that swallows the error (the scope ends normally),
\* "continue" goes on with the next step, "propagate" lets the exception leave
\* the message.process scope.
\*   decode        except UnicodeDecodeError (125)
\*   parse         except json.JSONDecodeError (123)
\*   validate      except Exception ... return (52-54)
\*   write         raised at 85 or 90, caught by except Exception (127-133)
\*   detect        except Exception, log and continue (99-102)
\*   anomaly_write False or except Exception, log and continue (109-116)
OnFailure(step) ==
    CASE step \in {"decode", "parse", "validate"} -> "exit"
      [] step = "write" -> "exit"
      [] step \in {"detect", "anomaly_write"} -> "continue"

\* The scope acks only when the handler reached its last line.
ProcessExitAckAtEndOnly(raised, early) ==
    [ack |-> ~raised /\ ~early, reject |-> raised, requeue |-> FALSE]

\* message.process(requeue=False, ignore_processed=True) on leaving the scope:
\* ack when no exception left it, reject(requeue=False) otherwise.  early: the
\* handler left before its last statement.
ProcessExit(raised, early) ==
    [ack |-> ~raised, reject |-> raised, requeue |-> FALSE]

\* The handler of message m leaves the scope; rec is its record at that point.
Settle(m, rec, raised, early) ==
    LET d == ProcessExit(raised, early)
    IN /\ msg' = [msg EXCEPT ![m] =
                    [rec EXCEPT !.pc = IF d.reject /\ d.requeue THEN "queued" ELSE "done",
                                !.acks = @ + (IF d.ack THEN 1 ELSE 0),
                                !.nacks = @ + (IF d.reject THEN 1 ELSE 0),
                                !.requeues = @ + (IF d.reject /\ d.requeue THEN 1 ELSE 0)]]
       /\ unacked' = IF d.ack \/ d.reject THEN unacked \ {m} ELSE unacked
       /\ rawQueue' = IF d.reject /\ d.requeue THEN Append(rawQueue, m) ELSE rawQueue

\* After a step failed: leave the scope, or go on at position next.
AfterFailure(m, rec, step, next) ==
    IF OnFailure(step) = "continue" /\ next # "end"
    THEN msg' = [msg EXCEPT ![m] = [rec EXCEPT !.pc = next]] /\ UNCHANGED <<unacked, rawQueue>>
    ELSE Settle(m, rec, OnFailure(step) = "propagate", OnFailure(step) = "exit")

\* process_message up to its first await (lines 33-81): decode, parse, validate,
\* construct the reading and hand the write to the executor.
ProcessMessageStart(m) ==
    /\ msg[m].pc = "received"
    /\ LET b == msg[m].body
           failed == IF ~DecodeOk(b) THEN "decode"
                     ELSE IF ~ParseOk(b) THEN "parse"
                     ELSE IF ~ValidateOk(b) THEN "validate" ELSE "none"
           steps == CASE failed = "decode" -> <<"decode">>
                      [] failed = "parse" -> <<"decode", "parse">>
                      [] failed = "validate" -> <<"decode", "parse", "validate">>
                      [] OTHER -> <<"decode", "parse", "validate", "construct">>
           rec == [msg[m] EXCEPT !.trace = steps]
       IN IF failed # "none"
          THEN AfterFailure(m, rec, failed, "end")
          ELSE /\ msg' = [msg EXCEPT ![m] =
                            [rec EXCEPT !.pc = "write",
                                        !.reading = Some(AirQualityReading(b.data, now)),
                                        !.stamped = Some(now)]]
               /\ UNCHANGED <<unacked, rawQueue>>
    /\ UNCHANGED <<pushVars, now, wpc, qos, uuid_seq, storeVars, budget, poolVars, apiVars, stop_event>>

\* run_in_executor itself may fail (the executor is shut down).
ExecutorOutcomes == InfluxOutcomes \cup {"executor_error"}

\* Lines 78-90: the executor runs write_air_quality_data, then the handler goes
\* on to the anomaly check or fails.
ExecutorWrite(m) ==
    /\ msg[m].pc = "write"
    /\ \E outcome \in ExecutorOutcomes :
        LET reading == TheValue(msg[m].reading)
            r == IF outcome = "executor_error"
                 THEN [ret |-> "raise", wrote |-> FALSE, skipped |-> FALSE]
                 ELSE WriteReadingResult(write_api, reading, outcome)
            rec == [msg[m] EXCEPT !.trace = Append(@, "write"), !.write = r.ret,
                                  !.wrote = r.wrote, !.skipped = r.skipped]
        IN /\ air_quality' = IF r.wrote
                             THEN StoreAfterWrite(air_quality, ReadingPoint(reading))
                             ELSE air_quality
           /\ IF r.ret = "true"
              THEN msg' = [msg EXCEPT ![m] = [rec EXCEPT !.pc = "detect"]]
                   /\ UNCHANGED <<unacked, rawQueue>>
              ELSE AfterFailure(m, rec, "write", "detect")
    /\ UNCHANGED <<pushVars, now, wpc, qos, uuid_seq, write_api, air_quality_anomalies, budget, poolVars, apiVars, stop_event, query>>

\* Lines 92-105 (and 121 when there is no anomaly): the executor runs
\* check_thresholds.
ExecutorDetect(m) ==
    /\ msg[m].pc = "detect"
    /\ \E ran \in BOOLEAN :
        LET reading == TheValue(msg[m].reading)
            found == IF ran THEN check_thresholds(reading, uuid_seq + 1) ELSE None
            anomaly == IF ran \/ OnFailure("detect") = "continue" THEN found ELSE None
            rec == [msg[m] EXCEPT !.trace = Append(@, "detect"),
                                  !.detect = IF ran THEN "ok" ELSE "raise",
                                  !.anomaly = anomaly]
        IN /\ uuid_seq' = IF found # None THEN uuid_seq + 1 ELSE uuid_seq
           /\ IF ~ran /\ OnFailure("detect") # "continue"
              THEN AfterFailure(m, rec, "detect", "end")
              ELSE IF anomaly # None
              THEN msg' = [msg EXCEPT ![m] = [rec EXCEPT !.pc = "anomaly_write"]]
                   /\ UNCHANGED <<unacked, rawQueue>>
              ELSE Settle(m, rec, FALSE, FALSE)
    /\ UNCHANGED <<pushVars, now, wpc, qos, storeVars, budget, poolVars, apiVars, stop_event>>

AnomalyWriteOutcomes == {"ok", "influx_error", "other_error", "executor_error"}

\* Lines 104-121: the executor runs write_anomaly_data; the handler ends.
ExecutorWriteAnomaly(m) ==
    /\ msg[m].pc = "anomaly_write"
    /\ \E outcome \in AnomalyWriteOutcomes :
        LET anomaly == TheValue(msg[m].anomaly)
            ret == IF outcome = "executor_error" THEN "raise"
                   ELSE WriteAnomalyResult(write_api, outcome)
            rec == [msg[m] EXCEPT !.trace = Append(@, "anomaly_write"),
                                  !.anomaly_write = ret,
                                  !.subscribers = IF ret = "true" THEN active_connections
                                                  ELSE {}]
        IN /\ air_quality_anomalies' = IF ret = "true"
                                       THEN air_quality_anomalies \cup {AnomalyPoint(anomaly)}
                                       ELSE air_quality_anomalies
           /\ IF ret = "true"
              THEN Settle(m, rec, FALSE, FALSE)
              ELSE AfterFailure(m, rec, "anomaly_write", "end")
    /\ UNCHANGED <<pushVars, now, wpc, qos, uuid_seq, write_api, air_quality, budget, poolVars, apiVars, stop_event, query>>

\* ------------------------------------------------ worker.py: start_consuming
\* connect_robust succeeds, or fails and is retried after the sleep (169-178).
WorkerConnect ==
    /\ wpc = "connect"
    /\ \E ok \in BOOLEAN : wpc' = IF ok THEN "channel" ELSE "connect"
    /\ UNCHANGED <<pushVars, now, rawQueue, msg, unacked, qos, uuid_seq, storeVars, budget, poolVars, apiVars, stop_event>>

\* connection.channel() (149): a fresh channel has no prefetch limit.
WorkerOpenChannel ==
    /\ wpc = "channel"
    /\ wpc' = "set_qos"
    /\ qos' = 0
    /\ UNCHANGED <<pushVars, now, rawQueue, msg, unacked, uuid_seq, storeVars, budget, poolVars, apiVars, stop_event>>

\* The channel is left without a prefetch limit.
SetQosOmitted == PREFETCH_COUNT - PREFETCH_COUNT

\* channel.set_qos(prefetch_count=PREFETCH_COUNT) (153)
SetQos == PREFETCH_COUNT

WorkerSetQos ==
    /\ wpc = "set_qos"
    /\ wpc' = "declare_queue"
    /\ qos' = SetQos
    /\ UNCHANGED <<pushVars, now, rawQueue, msg, unacked, uuid_seq, storeVars, budget, poolVars, apiVars, stop_event>>

\* channel.declare_queue(RAW_DATA_QUEUE, durable=True) (157)
WorkerDeclareQueue ==
    /\ wpc = "declare_queue"
    /\ wpc' = "consume"
    /\ UNCHANGED <<pushVars, now, rawQueue, msg, unacked, qos, uuid_seq, storeVars, budget, poolVars, apiVars, stop_event>>

\* queue.consume(process_message) (163)
WorkerConsume ==
    /\ wpc = "consume"
    /\ wpc' = "consuming"
    /\ UNCHANGED <<pushVars, now, rawQueue, msg, unacked, qos, uuid_seq, storeVars, budget, poolVars, apiVars, stop_event>>

\* The broker hands the head of the raw queue to the consumer while the
\* channel's unacknowledged messages are below its prefetch count.
BrokerDeliver ==
    /\ wpc = "consuming"
    /\ rawQueue # <<>>
    /\ qos = 0 \/ Cardinality(unacked) < qos
    /\ LET m == Head(rawQueue)
       IN /\ msg' = [msg EXCEPT ![m].pc = "received"]
          /\ unacked' = unacked \cup {m}
    /\ rawQueue' = Tail(rawQueue)
    /\ UNCHANGED <<pushVars, now, wpc, qos, uuid_seq, storeVars, budget, poolVars, apiVars, stop_event>>

\* ------------------------------------------------------- the worker's main
\* SIGINT or SIGTERM arrives: signal_handler (211-213) sets stop_event.
WorkerSignal ==
    /\ ~stop_event
    /\ stop_event' = TRUE
    /\ UNCHANGED <<pushVars, now, rawQueue, msg, unacked, wpc, qos, uuid_seq, storeVars, budget, poolVars, apiVars>>

\* consumer_task is done: start_consuming catches every error inside its loop
\* (169-193) and leaves it only by the break on CancelledError (179-181).
ConsumerTaskDone == wpc = "cancelled"

\* await asyncio.gather(consumer_task, stop_event.wait()) (234) returns when
\* both awaitables have completed.
GatherReturns == ConsumerTaskDone /\ stop_event

\* main after the gather (236-247): a consumer task that is not done is
\* cancelled and awaited; its finally clause (195-203) closes the channel and
\* the connection, and what was delivered and not acked goes back to the queue.
WorkerMainShutdown ==
    /\ GatherReturns
    /\ IF ConsumerTaskDone
       THEN UNCHANGED <<wpc, unacked>>
       ELSE wpc' = "cancelled" /\ unacked' = {}
    /\ UNCHANGED <<pushVars, now, rawQueue, msg, qos, uuid_seq, stop_event, storeVars, budget, poolVars, apiVars>>

\* ------------------------------------------------------------ environment
\* datetime.now() moves on.
Tick ==
    /\ now < MaxClock
    /\ now' = now + TickUs
    /\ UNCHANGED <<pushVars, rawQueue, msg, unacked, wpc, qos, uuid_seq, storeVars, budget, poolVars, apiVars, stop_event>>

\* A body is put on the raw queue as a new message.
Enqueue(b) ==
    /\ msg' = Append(msg, [NoMsg EXCEPT !.pc = "queued", !.body = b])
    /\ rawQueue' = Append(rawQueue, Len(msg) + 1)

\* Some producer puts a body on the raw queue.
RawPublish ==
    /\ budget > 0
    /\ budget' = budget - 1
    /\ \E b \in BodySamples : Enqueue(b)
    /\ UNCHANGED <<pushVars, now, unacked, wpc, qos, uuid_seq, storeVars, poolVars, apiVars, stop_event>>

\* Readings at and just above each threshold, and without a value.
NearThreshold(parameter) == {None, Some(Threshold(parameter)), Some(Threshold(parameter) + 1)}

\* A producer puts a reading near the thresholds on the raw queue.
ThresholdPublish ==
    /\ budget > 0
    /\ budget' = budget - 1
    /\ \E pm25 \in NearThreshold("pm25"), pm10 \in NearThreshold("pm10"),
          no2 \in NearThreshold("no2") :
            Enqueue(Body("object", Payload(Some(41), Some(29), pm25, pm10, no2, Some(5), None, None)))
    /\ UNCHANGED <<pushVars, now, unacked, wpc, qos, uuid_seq, storeVars, poolVars, apiVars, stop_event>>

\* A producer puts a reading from the poles, the date line or in between on
\* the raw queue.
CoordinatePublish ==
    /\ budget > 0
    /\ budget' = budget - 1
    /\ \E lat \in {0 - 90, 41, 90}, lon \in {0 - 180, 29, 180} :
            Enqueue(Body("object", Payload(Some(lat), Some(lon), Some(12), None, None, None, None, None)))
    /\ UNCHANGED <<pushVars, now, unacked, wpc, qos, uuid_seq, storeVars, poolVars, apiVars, stop_event>>

\* A burst of messages of one kind.
BurstPublish ==
    /\ budget > 0
    /\ budget' = budget - 1
    /\ Enqueue(Body("badjson", EmptyPayload))
    /\ UNCHANGED <<pushVars, now, unacked, wpc, qos, uuid_seq, storeVars, poolVars, apiVars, stop_event>>

\* ------------------------------------------- queue_client.py: the pool
\* initialize(): how many of the POOL_MAX_SIZE connection attempts succeed.
CreatedCounts == IF broker_flaky THEN {0, 1, 2, POOL_MAX_SIZE} ELSE {POOL_MAX_SIZE}

\* lifespan startup (134-145): initialize_rabbitmq_pool() builds the pool and
\* fills it, and the broadcast consumer task is created.
ApiStartup ==
    /\ api = "down"
    /\ api' = "running"
    /\ connection_pool' = "pool"
    /\ \E k \in CreatedCounts :
        /\ pool' = [i \in 1..k |-> i]
        /\ conn_state' = [i \in Conns |-> IF i <= k THEN "open" ELSE "absent"]
    /\ bcast' = "connect"
    /\ UNCHANGED <<exchange_log, bqueue, bmsg, hubVars, tests, consumer>>
    /\ UNCHANGED <<workerVars, storeVars, budget, broker_flaky, call>>

\* lifespan shutdown (147-160): the broadcast consumer task is cancelled, its
\* connection closes and its auto-delete queue goes; then pool.close() up to its
\* await: every idle connection is taken out of the queue and closed.  Nothing
\* is done about the callers waiting in get() (the join() at 173 is commented
\* out); the record notes who they are.
ApiShutdownDrain ==
    /\ api = "running"
    /\ api' = "closing"
    /\ pool' = <<>>
    /\ conn_state' = [i \in Conns |->
                        IF \E j \in 1..Len(pool) : pool[j] = i /\ conn_state[i] = "open"
                        THEN "closed" ELSE conn_state[i]]
    /\ bcast' = "cancelled"
    /\ bqueue' = <<>>
    /\ consumer' = [consumer EXCEPT !.open = 0]
    /\ UNCHANGED <<exchange_log, bmsg, hubVars, tests>>
    /\ call' = [c \in DOMAIN call |->
                    IF call[c].pc = "get"
                    THEN [call[c] EXCEPT !.waiting_at_close = TRUE] ELSE call[c]]
    /\ UNCHANGED <<workerVars, storeVars, budget, broker_flaky, connection_pool>>

\* close_rabbitmq_pool() after close() returned: connection_pool = None.
ApiShutdownFinish ==
    /\ api = "closing"
    /\ api' = "stopped"
    /\ connection_pool' = "none"
    /\ UNCHANGED <<pushVars, workerVars, storeVars, budget, broker_flaky, call, pool, conn_state>>

\* The connections whose is_closed the code reads next: the one a caller holds
\* (read at line 114) and the one get() hands out next (read at line 84).
Observed ==
    { call[c].conn : c \in DOMAIN call } \cup (IF pool = <<>> THEN {} ELSE {pool[Len(pool)]})

\* A connection goes down: the broker closes it or the network fails; from then
\* on conn.is_closed is true.  A connection deeper in the queue that goes down
\* is noticed no earlier than when it has become the next one handed out.
BrokerDropsConnection ==
    /\ broker_flaky
    /\ api = "running"
    /\ Cardinality({i \in Conns : conn_state[i] = "lost"}) < MaxDrops
    /\ \E i \in Observed \cap Conns :
        /\ conn_state[i] = "open"
        /\ conn_state' = [conn_state EXCEPT ![i] = "lost"]
    /\ UNCHANGED <<pushVars, workerVars, storeVars, budget, apiVars, connection_pool, pool>>

\* acquire()'s finally block (112-137): an open connection goes back into the
\* queue, or is closed when the queue is full; a closed one is dropped.
\* Every connection is put back, open or not.
PoolAfterReleasePutsAny(conn) ==
    IF Len(pool) < POOL_MAX_SIZE THEN Append(pool, conn) ELSE pool

PoolAfterRelease(conn) ==
    IF conn_state[conn] = "open" /\ Len(pool) < POOL_MAX_SIZE THEN Append(pool, conn) ELSE pool

ConnStateAfterRelease(conn) ==
    IF conn_state[conn] = "open" /\ Len(pool) >= POOL_MAX_SIZE
    THEN [conn_state EXCEPT ![conn] = "closed"] ELSE conn_state

\* The connection is neither put back nor closed.
ReleaseLeaks(conn) == UNCHANGED <<pool, conn_state>>

Release(conn) ==
    /\ pool' = PoolAfterRelease(conn)
    /\ conn_state' = ConnStateAfterRelease(conn)

\* -------------------------------- queue_client.py: publish_message_async
NoCall ==
    [pc |-> "idle", raw |-> EmptyPayload, body |-> EmptyPayload, attempt |-> 0,
     conn |-> 0, started |-> 0,
     enqueued |-> 0, retried_after_publish |-> FALSE, result |-> "none", status |-> 0,
     failures |-> 0, dumps_errors |-> 0, waiting_at_close |-> FALSE, late_conn |-> FALSE,
     discarded |-> FALSE,
     endpoint |-> TRUE, channel |-> "none"]

\* channel.close() was called on the call's channel (244, 262, 270-272).
ChannelClosed(rec) == [rec EXCEPT !.channel = "none"]

\* What the API's broker operations may do.
BrokerResults(failures) == IF broker_flaky THEN {"ok"} \cup failures ELSE {"ok"}

\* The handler answers 202 whatever the publish reported.
FinishAccepted(c, rec, ok) ==
    call' = [call EXCEPT ![c] =
                [rec EXCEPT !.pc = "done", !.conn = 0,
                            !.result = IF ok THEN "true" ELSE "false",
                            !.status = IF rec.endpoint THEN 202 ELSE 0]]

\* publish_message_async returns; the ingest handler answers 202 or 503 (522-531).
Finish(c, rec, ok) ==
    call' = [call EXCEPT ![c] =
                [rec EXCEPT !.pc = "done", !.conn = 0,
                            !.result = IF ok THEN "true" ELSE "false",
                            !.status = IF ~rec.endpoint THEN 0
                                       ELSE IF ok THEN 202 ELSE 503]]

\* An attempt failed.  by_continue: it left through a `continue` (229, 234, 245),
\* which starts the next attempt at once; otherwise control reaches line 284:
\* sleep unless this was the last attempt.  After the last attempt the loop
\* ends and the call returns False (290-292).
\* A loop that goes on to a fourth attempt.
AttemptFailedOneMoreTry(c, rec, by_continue) ==
    LET failed == [rec EXCEPT !.failures = @ + 1]
    IN IF rec.attempt < PublishRetries
       THEN call' = [call EXCEPT ![c] = [failed EXCEPT !.pc = "backoff", !.conn = 0]]
       ELSE Finish(c, failed, FALSE)

AttemptFailed(c, rec, by_continue) ==
    LET failed == [rec EXCEPT !.failures = @ + 1]
    IN IF by_continue
       THEN IF rec.attempt + 1 < PublishRetries
            THEN call' = [call EXCEPT ![c] =
                           [failed EXCEPT !.pc = "acquire", !.conn = 0, !.attempt = @ + 1]]
            ELSE Finish(c, failed, FALSE)
       ELSE IF rec.attempt < PublishRetries - 1
            THEN call' = [call EXCEPT ![c] = [failed EXCEPT !.pc = "backoff", !.conn = 0]]
            ELSE Finish(c, failed, FALSE)

\* One iteration of the retry loop begins: connection_pool.acquire() (214-217).
\* With connection_pool None this raises, which the last except clause (279)
\* takes as a failed attempt.
PubAcquire(c) ==
    /\ call[c].pc = "acquire"
    /\ LET rec == [call[c] EXCEPT !.started = @ + 1,
                                  !.retried_after_publish = @ \/ call[c].enqueued > 0]
       IN IF connection_pool = "none"
          THEN AttemptFailed(c, rec, FALSE)
          ELSE call' = [call EXCEPT ![c] = [rec EXCEPT !.pc = "get"]]
    /\ UNCHANGED <<pushVars, workerVars, storeVars, budget, poolVars, api, broker_flaky>>

\* conn.is_closed: closed by the pool, or lost to the broker or the network.
IsClosed(conn) == conn_state[conn] \in {"closed", "lost"}

\* The queue keeps the connection it hands out.
PoolAfterGetKeeps == pool

\* self._pool.get() (79-82) takes the connection out of the queue.
PoolAfterGet == SubSeq(pool, 1, Len(pool) - 1)

\* acquire() (76-111): wait_for(self._pool.get(), CONNECTION_TIMEOUT): the last
\* connection put is taken; a closed one is discarded and the attempt fails; on
\* an empty queue the caller waits (the action is not taken) until a connection
\* is put or the timeout ends the attempt.
PubGet(c) ==
    /\ call[c].pc = "get"
    /\ LET rec == [call[c] EXCEPT !.waiting_at_close = FALSE]
       IN IF pool = <<>>
          THEN AttemptFailed(c, rec, FALSE) /\ UNCHANGED pool
          ELSE LET conn == pool[Len(pool)]
               IN /\ pool' = PoolAfterGet
                  /\ IF IsClosed(conn)
                     THEN AttemptFailed(c, [rec EXCEPT !.discarded = TRUE], FALSE)
                     ELSE call' = [call EXCEPT ![c] =
                                    [rec EXCEPT !.pc = "channel", !.conn = conn,
                                                !.late_conn = @ \/ call[c].waiting_at_close]]
    /\ UNCHANGED <<pushVars, workerVars, storeVars, budget, connection_pool, conn_state, api,
                   broker_flaky>>

\* connection.channel() within CHANNEL_TIMEOUT (222-234).
PubChannel(c) ==
    /\ call[c].pc = "channel"
    /\ \E o \in BrokerResults({"timeout", "error"}) :
        IF o = "ok"
        THEN /\ call' = [call EXCEPT ![c] = [@ EXCEPT !.pc = "declare", !.channel = "open"]]
             /\ UNCHANGED <<pool, conn_state>>
        ELSE AttemptFailed(c, call[c], TRUE) /\ Release(call[c].conn)
    /\ UNCHANGED <<pushVars, workerVars, storeVars, budget, connection_pool, api, broker_flaky>>

\* channel.declare_queue(RAW_DATA_QUEUE, durable=True) (238-245); on an error the
\* channel is closed, and when that close raises too the exception leaves the
\* acquire scope and reaches the except clauses of the loop.
PubDeclare(c) ==
    /\ call[c].pc = "declare"
    /\ \E o \in BrokerResults({"error", "error_close_failed"}) :
        IF o = "ok"
        THEN call' = [call EXCEPT ![c].pc = "publish"] /\ UNCHANGED <<pool, conn_state>>
        ELSE /\ AttemptFailed(c, ChannelClosed(call[c]), o = "error")
             /\ Release(call[c].conn)
    /\ UNCHANGED <<pushVars, workerVars, storeVars, budget, connection_pool, api, broker_flaky>>

\* json.dumps(model_dump()): the declared fields as a JSON object
MessageBody(req) ==
    Body("object", Payload(req.latitude, req.longitude, req.pm25, req.pm10,
                           req.no2, req.so2, req.o3, None))

\* json.dumps(message_body) (250) raises TypeError on a value JSON has no form
\* for; of the values in the model that is the datetime object under "ts".
JsonDumpsOk(body) == "ts" \notin DOMAIN body \/ body.ts = None

\* aio_pika.Message(body=json.dumps(message_body)...) and
\* default_exchange.publish(message, routing_key=RAW_DATA_QUEUE) (248-259); an
\* error of either is caught at 265, the channel closed, and control falls to
\* line 284.
PubPublish(c) ==
    /\ call[c].pc = "publish"
    /\ IF ~JsonDumpsOk(call[c].body)
       THEN /\ AttemptFailed(c, ChannelClosed([call[c] EXCEPT !.dumps_errors = @ + 1]), FALSE)
            /\ Release(call[c].conn)
            /\ UNCHANGED <<msg, rawQueue>>
       ELSE \E o \in BrokerResults({"error"}) :
            IF o = "ok"
            THEN /\ Enqueue(MessageBody(call[c].body))
                 /\ call' = [call EXCEPT ![c] = [@ EXCEPT !.pc = "close", !.enqueued = @ + 1]]
                 /\ UNCHANGED <<pool, conn_state>>
            ELSE /\ AttemptFailed(c, ChannelClosed(call[c]), FALSE)
                 /\ Release(call[c].conn)
                 /\ UNCHANGED <<msg, rawQueue>>
    /\ UNCHANGED <<pushVars, now, unacked, wpc, qos, uuid_seq, storeVars, budget, connection_pool,
                   api, broker_flaky, stop_event>>

\* channel.close() after the publish (261-263): return True; when it raises, the
\* except clause at 265 takes it as a publish error and control falls to 284.
PubCloseChannel(c) ==
    /\ call[c].pc = "close"
    /\ \E o \in BrokerResults({"error"}) :
        /\ IF o = "ok" THEN Finish(c, ChannelClosed(call[c]), TRUE)
           ELSE AttemptFailed(c, ChannelClosed(call[c]), FALSE)
        /\ Release(call[c].conn)
    /\ UNCHANGED <<pushVars, workerVars, storeVars, budget, connection_pool, api, broker_flaky>>

\* wait_time = 0.5 * (attempt + 1); asyncio.sleep(wait_time) (285-288)
PubBackoff(c) ==
    /\ call[c].pc = "backoff"
    /\ call' = [call EXCEPT ![c] =
                    [@ EXCEPT !.pc = "acquire", !.attempt = @ + 1]]
    /\ UNCHANGED <<pushVars, workerVars, storeVars, budget, poolVars, api, broker_flaky>>

\* ------------------------------------------- main.py: the ingest endpoint
\* POST /air_quality/ingest (508-531): the framework validates the body as an
\* IngestRequest (422 otherwise), then publish_message_async(model_dump()) starts;
\* with no pool it returns False at once (207-209).
IngestReceive(p) ==
    /\ api # "down"
    /\ budget > 0
    /\ budget' = budget - 1
    /\ LET req == [NoCall EXCEPT !.raw = p]
           rec == IF ~IngestRequestValid(p)
                  THEN [req EXCEPT !.pc = "done", !.status = 422]
                  ELSE IF connection_pool = "none"
                  THEN [req EXCEPT !.pc = "done", !.body = IngestRequest(p),
                                   !.result = "false", !.status = 503]
                  ELSE [req EXCEPT !.pc = "acquire", !.body = IngestRequest(p)]
       IN call' = Append(call, rec)
    /\ UNCHANGED <<pushVars, workerVars, storeVars, poolVars, api, broker_flaky>>

\* publish_message_async(message_body) (205-217) called with a dict that holds a
\* datetime object.
PublishCall ==
    /\ api # "down"
    /\ budget > 0
    /\ budget' = budget - 1
    /\ LET body == Payload(Some(41), Some(29), Some(12), None, None, None, None, Some(7))
           req == [NoCall EXCEPT !.raw = body, !.body = body, !.endpoint = FALSE]
       IN call' = Append(call,
                    IF connection_pool = "none"
                    THEN [req EXCEPT !.pc = "done", !.result = "false"]
                    ELSE [req EXCEPT !.pc = "acquire"])
    /\ UNCHANGED <<pushVars, workerVars, storeVars, poolVars, api, broker_flaky>>

\* ------------------------------------- the broadcast exchange and its consumer
\* What travels on the broadcast exchange: an anomaly's JSON form (source says
\* who made the id), a JSON object that is no anomaly, an object that has id and
\* parameter and lacks other fields of an Anomaly, or text that is not JSON.
AnomalyPayload(source, id) == [kind |-> "anomaly", source |-> source, id |-> id]

ForeignPayloads ==
    { [kind |-> "nonanomaly", source |-> "foreign", id |-> 0],
      [kind |-> "partial", source |-> "foreign", id |-> 0],
      [kind |-> "badjson", source |-> "foreign", id |-> 0] }

\* The queue is bound to the exchange once queue.bind returned (70).
Bound == bcast \in {"consume", "consuming"}

\* A fanout exchange copies a published message to every queue bound to it.
Route(payload) ==
    /\ exchange_log' = Append(exchange_log, payload)
    /\ bqueue' = IF Bound THEN Append(bqueue, payload) ELSE bqueue

\* The consumer's connections to the broker: how many are open, and how many
\* connections or connection attempts were lost so far.
NoConnection == [open |-> 0, losses |-> 0]

\* consume_broadcasts, lines 52-96, one broker operation each.
BroadcastConnect ==
    /\ bcast = "connect"
    /\ bcast' = "channel"
    /\ consumer' = [consumer EXCEPT !.open = @ + 1]
    /\ UNCHANGED <<exchange_log, bqueue, bmsg, hubVars, tests>>
    /\ UNCHANGED <<workerVars, storeVars, budget, poolVars, apiVars>>

BroadcastOpenChannel ==
    /\ bcast = "channel"
    /\ bcast' = "declare_exchange"
    /\ UNCHANGED <<exchange_log, bqueue, bmsg, hubVars, tests, consumer>>
    /\ UNCHANGED <<workerVars, storeVars, budget, poolVars, apiVars>>

BroadcastDeclareExchange ==
    /\ bcast = "declare_exchange"
    /\ bcast' = "declare_queue"
    /\ UNCHANGED <<exchange_log, bqueue, bmsg, hubVars, tests, consumer>>
    /\ UNCHANGED <<workerVars, storeVars, budget, poolVars, apiVars>>

BroadcastDeclareQueue ==
    /\ bcast = "declare_queue"
    /\ bcast' = "bind"
    /\ bqueue' = <<>>
    /\ UNCHANGED <<exchange_log, bmsg, hubVars, tests, consumer>>
    /\ UNCHANGED <<workerVars, storeVars, budget, poolVars, apiVars>>

BroadcastBind ==
    /\ bcast = "bind"
    /\ bcast' = "consume"
    /\ UNCHANGED <<exchange_log, bqueue, bmsg, hubVars, tests, consumer>>
    /\ UNCHANGED <<workerVars, storeVars, budget, poolVars, apiVars>>

BroadcastConsume ==
    /\ bcast = "consume"
    /\ bcast' = "consuming"
    /\ UNCHANGED <<exchange_log, bqueue, bmsg, hubVars, tests, consumer>>
    /\ UNCHANGED <<workerVars, storeVars, budget, poolVars, apiVars>>

\* A failed setup that leaves the connection it made open.
BroadcastSetupFailsLeaks ==
    /\ bcast \in {"connect", "channel", "declare_exchange", "declare_queue", "bind", "consume"}
    /\ broker_flaky
    /\ consumer.losses < MaxDrops
    /\ bcast' = "sleep"
    /\ bqueue' = <<>>
    /\ consumer' = [consumer EXCEPT !.losses = @ + 1]
    /\ UNCHANGED <<exchange_log, bmsg, hubVars, tests>>
    /\ UNCHANGED <<workerVars, storeVars, budget, poolVars, apiVars>>

\* A broker operation of the setup (52-96) raises: the connection attempt fails
\* or the connection drops under the call.  Both except clauses (101-108,
\* 112-120) close the connection if one was made, forget it and sleep; the
\* exclusive auto-delete queue goes with its connection.
BroadcastSetupFails ==
    /\ bcast \in {"connect", "channel", "declare_exchange", "declare_queue", "bind", "consume"}
    /\ broker_flaky
    /\ consumer.losses < MaxDrops
    /\ bcast' = "sleep"
    /\ bqueue' = <<>>
    /\ consumer' = [open |-> 0, losses |-> consumer.losses + 1]
    /\ UNCHANGED <<exchange_log, bmsg, hubVars, tests>>
    /\ UNCHANGED <<workerVars, storeVars, budget, poolVars, apiVars>>

\* asyncio.sleep(5) or asyncio.sleep(10) returned, the finally clause (121-130)
\* found nothing left to close, and the while loop (49) starts over.
BroadcastRetry ==
    /\ bcast = "sleep"
    /\ bcast' = "connect"
    /\ UNCHANGED <<exchange_log, bqueue, bmsg, hubVars, tests, consumer>>
    /\ UNCHANGED <<workerVars, storeVars, budget, poolVars, apiVars>>

\* The connection drops while the task waits at line 99.  Nothing is raised
\* there; the connection made by connect_robust (52) reconnects by itself.  The
\* queue was exclusive and auto-delete: it is gone with what it held.
BroadcastConnectionLost ==
    /\ bcast = "consuming"
    /\ broker_flaky
    /\ consumer.losses < MaxDrops
    /\ bcast' = "restoring"
    /\ bqueue' = <<>>
    /\ consumer' = [open |-> consumer.open - 1, losses |-> consumer.losses + 1]
    /\ UNCHANGED <<exchange_log, bmsg, hubVars, tests>>
    /\ UNCHANGED <<workerVars, storeVars, budget, poolVars, apiVars>>

\* The robust connection of line 52 is up again and has restored what was
\* declared on it: the channel, the exchange, a queue of the same declaration
\* (66), its binding (70) and its consumer (96).
BroadcastRestored ==
    /\ bcast = "restoring"
    /\ bcast' = "consuming"
    /\ bqueue' = <<>>
    /\ consumer' = [consumer EXCEPT !.open = @ + 1]
    /\ UNCHANGED <<exchange_log, bmsg, hubVars, tests>>
    /\ UNCHANGED <<workerVars, storeVars, budget, poolVars, apiVars>>

\* order: the how-manieth call of broadcast_anomaly this message led to (0: none);
\* blocked: the sends of the wave that have begun and not yet returned.
NoBroadcast ==
    [pc |-> "received", payload |-> AnomalyPayload("test", 0), handed |-> FALSE,
     snapshot |-> {}, pending |-> {}, failed |-> {}, acks |-> 0, nacks |-> 0,
     order |-> 0, blocked |-> {}]

\* The broker hands the queue's first message to on_message.
BroadcastDeliver ==
    /\ bcast = "consuming"
    /\ bqueue # <<>>
    /\ bmsg' = Append(bmsg, [NoBroadcast EXCEPT !.payload = Head(bqueue)])
    /\ bqueue' = Tail(bqueue)
    /\ UNCHANGED <<bcast, exchange_log, hubVars, tests, consumer>>
    /\ UNCHANGED <<workerVars, storeVars, budget, poolVars, apiVars>>

\* on_message's shape check (82): a JSON object with id and parameter.
LooksLikeAnomaly(payload) == payload.kind \in {"anomaly", "partial"}

\* Anomaly(**anomaly_data) (84): pydantic raises when a required field is missing.
AnomalyConstructs(payload) == payload.kind = "anomaly"

\* A process() scope that rejects the message when the handler did not get as
\* far as the hub.
BroadcastSettleRejectsFailures(b, rec) ==
    bmsg' = [bmsg EXCEPT ![b] = [rec EXCEPT !.pc = "done",
                                           !.acks = IF rec.handed THEN @ + 1 ELSE @,
                                           !.nacks = IF rec.handed THEN @ ELSE @ + 1]]

\* message.process(ignore_processed=True) of on_message: both except clauses
\* swallow, so the scope always ends normally and acks.
BroadcastSettle(b, rec) ==
    bmsg' = [bmsg EXCEPT ![b] = [rec EXCEPT !.pc = "done", !.acks = @ + 1]]

\* on_message (75-93) up to the hub's gather (101): decode, parse, shape check,
\* Anomaly(**data), then broadcast_anomaly's check for no connections (63),
\* serialization and the snapshot under the lock (77-79).  The lock is never
\* held across an await, so taking it does not suspend.
OnMessage(b) ==
    /\ bmsg[b].pc = "received"
    /\ IF ~LooksLikeAnomaly(bmsg[b].payload) \/ ~AnomalyConstructs(bmsg[b].payload)
       THEN BroadcastSettle(b, bmsg[b])
       ELSE LET rec == [bmsg[b] EXCEPT !.handed = TRUE,
                                       !.order = Cardinality({a \in DOMAIN bmsg :
                                                                bmsg[a].handed}) + 1,
                                       !.snapshot = active_connections,
                                       !.pending = active_connections]
            IN IF active_connections = {}
               THEN BroadcastSettle(b, rec)
               ELSE bmsg' = [bmsg EXCEPT ![b] = [rec EXCEPT !.pc = "sending"]]
    /\ UNCHANGED <<bcast, exchange_log, bqueue, hubVars, tests, consumer>>
    /\ UNCHANGED <<workerVars, storeVars, budget, poolVars, apiVars>>

\* The session that was given connection id.
SessionOf(id) == CHOOSE w \in DOMAIN ws : ws[w].id = Some(id)

\* The frame broadcast_anomaly sends: json.dumps(anomaly.model_dump()), the
\* anomaly's fields and nothing around them.
BroadcastFrame(payload) == [type |-> "none", source |-> payload.source, id |-> payload.id]

\* await websocket.send_text(message) (134) of one task of the wave does not
\* return for now: the client is slow, its socket's buffer is full.
HubSendBlocks(b, id) ==
    /\ bmsg[b].pc = "sending"
    /\ id \in bmsg[b].pending \ bmsg[b].blocked
    /\ ws[SessionOf(id)].alive
    /\ bmsg' = [bmsg EXCEPT ![b].blocked = @ \cup {id}]
    /\ UNCHANGED <<bcast, exchange_log, bqueue, hubVars, tests, consumer>>
    /\ UNCHANGED <<workerVars, storeVars, budget, poolVars, apiVars>>

\* The sends of a wave one after the other: none goes on while one is blocked.
HubSendSequential(b, id) ==
    /\ bmsg[b].pc = "sending"
    /\ id \in bmsg[b].pending
    /\ bmsg[b].blocked \subseteq {id}
    /\ LET w == SessionOf(id)
           sent == ws[w].alive
       IN /\ ws' = IF sent
                   THEN [ws EXCEPT ![w].frames = Append(@, BroadcastFrame(bmsg[b].payload))]
                   ELSE ws
          /\ bmsg' = [bmsg EXCEPT ![b].pending = @ \ {id},
                                  ![b].blocked = @ \ {id},
                                  ![b].failed = IF sent THEN @ ELSE @ \cup {id}]
    /\ UNCHANGED <<bcast, exchange_log, bqueue, active_connections, connection_counter, tests, consumer>>
    /\ UNCHANGED <<workerVars, storeVars, budget, poolVars, apiVars>>

\* _send_message (131-145) for one connection of the snapshot, each a task of
\* its own under gather (101): the send either puts the frame on the socket or
\* fails, and a failure is only a False result.
HubSend(b, id) ==
    /\ bmsg[b].pc = "sending"
    /\ id \in bmsg[b].pending
    /\ LET w == SessionOf(id)
           sent == ws[w].alive
       IN /\ ws' = IF sent
                   THEN [ws EXCEPT ![w].frames = Append(@, BroadcastFrame(bmsg[b].payload))]
                   ELSE ws
          /\ bmsg' = [bmsg EXCEPT ![b].pending = @ \ {id},
                                  ![b].blocked = @ \ {id},
                                  ![b].failed = IF sent THEN @ ELSE @ \cup {id}]
    /\ UNCHANGED <<bcast, exchange_log, bqueue, active_connections, connection_counter, tests, consumer>>
    /\ UNCHANGED <<workerVars, storeVars, budget, poolVars, apiVars>>

\* A broadcast that ends by disconnecting every id of its snapshot.
HubReapSnapshot(b) ==
    /\ bmsg[b].pc = "sending"
    /\ bmsg[b].pending = {}
    /\ active_connections' = active_connections \ bmsg[b].snapshot
    /\ BroadcastSettle(b, bmsg[b])
    /\ UNCHANGED <<bcast, exchange_log, bqueue, connection_counter, ws, tests, consumer>>
    /\ UNCHANGED <<workerVars, storeVars, budget, poolVars, apiVars>>

\* A broadcast that ends without disconnecting the ids whose send failed.
HubReapKeepsFailed(b) ==
    /\ bmsg[b].pc = "sending"
    /\ bmsg[b].pending = {}
    /\ BroadcastSettle(b, bmsg[b])
    /\ UNCHANGED <<bcast, exchange_log, bqueue, hubVars, tests, consumer>>
    /\ UNCHANGED <<workerVars, storeVars, budget, poolVars, apiVars>>

\* After gather (103-122): every id whose send failed is disconnected; then
\* on_message returns and the message is acked.
HubReap(b) ==
    /\ bmsg[b].pc = "sending"
    /\ bmsg[b].pending = {}
    /\ active_connections' = active_connections \ bmsg[b].failed
    /\ BroadcastSettle(b, bmsg[b])
    /\ UNCHANGED <<bcast, exchange_log, bqueue, connection_counter, ws, tests, consumer>>
    /\ UNCHANGED <<workerVars, storeVars, budget, poolVars, apiVars>>

\* ----------------------------------------------- the WebSocket endpoint
NoSession ==
    [pc |-> "accept", id |-> None, alive |-> TRUE, frames |-> <<>>]

WelcomeFrame == [type |-> "connection_status", source |-> "hub", id |-> 0]

RecentFrame(id) == [type |-> "recent_anomaly", source |-> "worker", id |-> id]

\* The ids of a set of stored anomalies in increasing order.
RECURSIVE Ascending(_)
Ascending(S) ==
    IF S = {} THEN <<>>
    ELSE LET x == CHOOSE y \in S : \A z \in S : y <= z
         IN <<x>> \o Ascending(S \ {x})

\* query_anomalies_from_db(): the anomalies of the last 24 hours, or none when
\* the query fails.
RecentAnomalies(ok) ==
    IF ok THEN Ascending({ a.id : a \in air_quality_anomalies }) ELSE <<>>

\* A client opens a WebSocket to /ws/anomalies.
WsOpen ==
    /\ api = "running"
    /\ Len(ws) < MaxClients
    /\ ws' = Append(ws, NoSession)
    /\ UNCHANGED <<broadcastVars, active_connections, connection_counter, tests>>
    /\ UNCHANGED <<workerVars, storeVars, budget, poolVars, apiVars>>

\* The client goes away; the server learns of it at its next send or receive.
WsClientGone(w) ==
    /\ ws[w].alive
    /\ ws[w].pc # "closed"
    /\ ws' = [ws EXCEPT ![w].alive = FALSE]
    /\ UNCHANGED <<broadcastVars, active_connections, connection_counter, tests>>
    /\ UNCHANGED <<workerVars, storeVars, budget, poolVars, apiVars>>

\* The lowest id that is not registered.
connection_id_lowest_free ==
    CHOOSE i \in 0..connection_counter :
        i \notin active_connections /\ \A j \in 0..(i - 1) : j \in active_connections

\* connection_id = self.connection_counter (32)
connection_id == connection_counter

\* manager.connect (26-36): accept, then register under the lock with the
\* counter's value as id.  An accept that fails ends the endpoint unregistered.
WsConnect(w) ==
    /\ ws[w].pc = "accept"
    /\ IF ws[w].alive
       THEN /\ ws' = [ws EXCEPT ![w].pc = "welcome", ![w].id = Some(connection_id)]
            /\ active_connections' = active_connections \cup {connection_id}
            /\ connection_counter' = connection_counter + 1
       ELSE /\ ws' = [ws EXCEPT ![w].pc = "closed"]
            /\ UNCHANGED <<active_connections, connection_counter>>
    /\ UNCHANGED <<broadcastVars, tests>>
    /\ UNCHANGED <<workerVars, storeVars, budget, poolVars, apiVars>>

\* manager.disconnect (38-54): the id leaves the registry if it is there.
Disconnect(id) == active_connections' = active_connections \ {id}

\* The welcome frame (545-550); a failed send disconnects and ends (577-580).
WsWelcome(w) ==
    /\ ws[w].pc = "welcome"
    /\ IF ws[w].alive
       THEN /\ ws' = [ws EXCEPT ![w].pc = "replay", ![w].frames = Append(@, WelcomeFrame)]
            /\ UNCHANGED active_connections
       ELSE /\ ws' = [ws EXCEPT ![w].pc = "closed"]
            /\ Disconnect(TheValue(ws[w].id))
    /\ UNCHANGED <<broadcastVars, connection_counter, tests>>
    /\ UNCHANGED <<workerVars, storeVars, budget, poolVars, apiVars>>

\* The recent anomalies (554-575), one frame each; a failed send is logged and
\* the loop goes on.
WsReplay(w) ==
    /\ ws[w].pc = "replay"
    /\ \E ok \in BOOLEAN :
        LET recent == RecentAnomalies(ok)
            sent == IF ws[w].alive
                    THEN [i \in 1..Len(recent) |-> RecentFrame(recent[i])]
                    ELSE <<>>
        IN ws' = [ws EXCEPT ![w].pc = "open", ![w].frames = @ \o sent]
    /\ UNCHANGED <<broadcastVars, active_connections, connection_counter, tests>>
    /\ UNCHANGED <<workerVars, storeVars, budget, poolVars, apiVars>>

\* receive_text raises WebSocketDisconnect (596-598): disconnect and end.
WsDisconnect(w) ==
    /\ ws[w].pc = "open"
    /\ ~ws[w].alive
    /\ ws' = [ws EXCEPT ![w].pc = "closed"]
    /\ Disconnect(TheValue(ws[w].id))
    /\ UNCHANGED <<broadcastVars, connection_counter, tests>>
    /\ UNCHANGED <<workerVars, storeVars, budget, poolVars, apiVars>>

\* The server cancels the handler's task (at shutdown): CancelledError is
\* raised at the await the handler is suspended in.  It is no Exception, so
\* neither except clause (577, 596-601) runs and nothing calls disconnect.
WsCancelled(w) ==
    /\ ws[w].pc \in {"welcome", "replay", "open"}
    /\ ws' = [ws EXCEPT ![w].pc = "closed"]
    /\ UNCHANGED <<broadcastVars, active_connections, connection_counter, tests>>
    /\ UNCHANGED <<workerVars, storeVars, budget, poolVars, apiVars>>

\* -------------------------------------------- publishers to the exchange
\* publish_broadcast_message_async: the payload reaches the fanout exchange, or
\* the publish fails after its attempts.
publish_broadcast_message_async(payload, ok) ==
    IF ok THEN Route(payload) ELSE UNCHANGED <<exchange_log, bqueue>>

\* POST /test/broadcast-anomaly (609-640): 200 when the publish succeeded; the
\* 503 raised on failure is caught by the except clause around it and becomes 500.
TestAnomalyBroadcast ==
    /\ api = "running"
    /\ Len(tests) < MaxBroadcasts
    /\ \E ok \in BOOLEAN :
        /\ publish_broadcast_message_async(AnomalyPayload("test", Len(tests) + 1), ok)
        /\ tests' = Append(tests, IF ok THEN 200 ELSE 500)
    /\ UNCHANGED <<bcast, bmsg, hubVars, consumer>>
    /\ UNCHANGED <<workerVars, storeVars, budget, poolVars, apiVars>>

\* Some other client of the broker publishes to the exchange.
ForeignBroadcast ==
    /\ Len(exchange_log) < MaxBroadcasts
    /\ \E payload \in ForeignPayloads : Route(payload)
    /\ UNCHANGED <<bcast, bmsg, hubVars, tests, consumer>>
    /\ UNCHANGED <<workerVars, storeVars, budget, poolVars, apiVars>>

\* Another publisher on the broker puts an anomaly's JSON on the exchange.
ExchangePublish ==
    /\ budget > 0
    /\ budget' = budget - 1
    /\ Route(AnomalyPayload("publisher", Len(exchange_log) + 1))
    /\ UNCHANGED <<bcast, bmsg, hubVars, tests, consumer>>
    /\ UNCHANGED <<workerVars, storeVars, poolVars, apiVars>>

\* A producer puts a reading above the PM2.5 threshold on the raw queue.
HazardousPublish ==
    /\ budget > 0
    /\ budget' = budget - 1
    /\ Enqueue(Body("object", Payload(Some(41), Some(29), Some(300), None, None, None, None, None)))
    /\ UNCHANGED <<pushVars, now, unacked, wpc, qos, uuid_seq, storeVars, poolVars, apiVars, stop_event>>

\* ------------------------------------------------------------ specifications
InitWith(flaky, n, store_client) ==
    /\ now = 0
    /\ write_api \in store_client
    /\ rawQueue = <<>>
    /\ msg = <<>>
    /\ unacked = {}
    /\ wpc = "connect"
    /\ qos = 0
    /\ air_quality = {}
    /\ air_quality_anomalies = {}
    /\ uuid_seq = 0
    /\ budget = n
    /\ broker_flaky = flaky
    /\ api = "down"
    /\ connection_pool = "none"
    /\ pool = <<>>
    /\ conn_state = [i \in Conns |-> "absent"]
    /\ call = <<>>
    /\ bcast = "idle"
    /\ exchange_log = <<>>
    /\ bqueue = <<>>
    /\ bmsg = <<>>
    /\ active_connections = {}
    /\ connection_counter = 0
    /\ ws = <<>>
    /\ tests = <<>>
    /\ stop_event = FALSE
    /\ consumer = NoConnection
    /\ query = <<>>

WorkerStartup ==
    WorkerConnect \/ WorkerOpenChannel \/ WorkerSetQos \/ WorkerDeclareQueue \/ WorkerConsume

Handler ==
    \E m \in DOMAIN msg :
        ProcessMessageStart(m) \/ ExecutorWrite(m) \/ ExecutorDetect(m)
            \/ ExecutorWriteAnomaly(m)

\* The publisher's steps when no attempt fails.
PublisherStraight ==
    \E c \in DOMAIN call :
        PubAcquire(c) \/ PubGet(c) \/ PubChannel(c) \/ PubDeclare(c) \/ PubPublish(c)
            \/ PubCloseChannel(c)

Publisher ==
    \E c \in DOMAIN call :
        PubAcquire(c) \/ PubGet(c) \/ PubChannel(c) \/ PubDeclare(c) \/ PubPublish(c)
            \/ PubCloseChannel(c) \/ PubBackoff(c)

\* The requests sent in the publisher specification: one valid, one invalid.
PublishSamples ==
    { Payload(Some(41), Some(29), Some(300), Some(500), None, None, None, Some(7)),
      Payload(Some(91), Some(29), Some(12), None, None, None, None, None) }

\* The requests of the ingest pipeline: no pollutant at all, a hazardous
\* reading, a latitude out of range.
IngestSamples ==
    { Payload(Some(41), Some(29), None, None, None, None, None, Some(7)),
      Payload(Some(41), Some(29), Some(300), Some(500), None, None, None, Some(7)),
      Payload(Some(91), Some(29), Some(12), None, None, None, None, None) }

\* A client that sends its requests one after the other.
IngestSequential ==
    /\ \A c \in DOMAIN call : call[c].pc = "done"
    /\ \E p \in IngestSamples : IngestReceive(p)

\* A producer that bypasses the API puts a reading with a timestamp of its own
\* on the raw queue.
StampedPublish ==
    /\ budget > 0
    /\ budget' = budget - 1
    /\ Enqueue(Body("object",
                    Payload(Some(41), Some(29), Some(300), Some(500), None, None, None, Some(7))))
    /\ UNCHANGED <<pushVars, now, unacked, wpc, qos, uuid_seq, storeVars, poolVars, apiVars, stop_event>>

IngestPublish == \E p \in PublishSamples : IngestReceive(p)

\* The worker and the producers of the raw queue.
Init == InitWith(FALSE, MaxMsgs, BOOLEAN)

Next == WorkerStartup \/ BrokerDeliver \/ Handler \/ Tick \/ RawPublish

Spec == Init /\ [][Next]_vars

\* The pipeline: the ingest endpoint on a healthy broker, its publisher, the
\* worker.
InitIngest == InitWith(FALSE, MaxRequests, BOOLEAN)

NextIngest ==
    \/ WorkerStartup \/ BrokerDeliver \/ Handler \/ Tick \/ StampedPublish
    \/ ApiStartup \/ IngestSequential \/ PublisherStraight

SpecIngest == InitIngest /\ [][NextIngest]_vars

\* The worker on readings around the thresholds.
NextThresholds == WorkerStartup \/ BrokerDeliver \/ Handler \/ ThresholdPublish

SpecThresholds == InitWith(FALSE, MaxHazards, {TRUE}) /\ [][NextThresholds]_vars

\* The worker on readings from the edges of the coordinate ranges.
NextCoordinates == WorkerStartup \/ BrokerDeliver \/ Handler \/ CoordinatePublish

SpecCoordinates == InitWith(FALSE, MaxHazards, {TRUE}) /\ [][NextCoordinates]_vars

\* Spatial queries alone.
SpecCover == InitWith(FALSE, MaxHazards, {TRUE}) /\ [][BBoxQuery]_vars

\* Aggregations of lists of readings.
SpecAggregate == InitWith(FALSE, MaxHazards, {TRUE}) /\ [][Aggregate]_vars

\* The query endpoints, with a store client that was built or not.
NextQuery ==
    HeatmapRequest \/ DensityRequest \/ AnomaliesRequest \/ HistoryRequest \/ LocationRequest

SpecQuery == InitWith(FALSE, MaxHazards, BOOLEAN) /\ [][NextQuery]_vars

\* A burst on the raw queue against the worker's prefetch window, and a
\* shutdown signal to the worker at any time.
InitPrefetch == InitWith(FALSE, MaxBurst, {TRUE})

NextPrefetch == WorkerStartup \/ BrokerDeliver \/ Handler \/ BurstPublish \/ WorkerSignal

SpecPrefetch == InitPrefetch /\ [][NextPrefetch]_vars

\* The ingest endpoint and the publisher on a broker that may fail, with the
\* API's shutdown.
InitPublish == InitWith(TRUE, MaxCalls, {TRUE})

NextPublish ==
    \/ ApiStartup \/ IngestPublish \/ PublishCall \/ Publisher
    \/ ApiShutdownDrain \/ ApiShutdownFinish

SpecPublish == InitPublish /\ [][NextPublish]_vars

\* One client of the ingest endpoint, its requests one after the other, on a
\* broker that may fail and may take connections down, with the API's shutdown.
IngestPublishSequential ==
    /\ \A c \in DOMAIN call : call[c].pc = "done"
    /\ IngestPublish

InitPool == InitWith(TRUE, MaxRequests, {TRUE})

NextPool ==
    \/ ApiStartup \/ IngestPublishSequential \/ Publisher \/ BrokerDropsConnection
    \/ ApiShutdownDrain \/ ApiShutdownFinish

SpecPool == InitPool /\ [][NextPool]_vars

\* Clients of the ingest endpoint at the same time, their publishes sharing the
\* pool, on a broker that may fail and may take connections down.
InitShare == InitWith(TRUE, MaxCalls, {TRUE})

NextShare == ApiStartup \/ IngestPublish \/ Publisher \/ BrokerDropsConnection

SpecShare == InitShare /\ [][NextShare]_vars

\* One hazardous reading through the worker, the broadcast consumer, the hub
\* and its WebSocket clients.
BroadcastConsumer ==
    \/ BroadcastConnect \/ BroadcastOpenChannel \/ BroadcastDeclareExchange
    \/ BroadcastDeclareQueue \/ BroadcastBind \/ BroadcastConsume \/ BroadcastDeliver

Hub ==
    \E b \in DOMAIN bmsg :
        OnMessage(b) \/ HubReap(b) \/ \E id \in bmsg[b].pending : HubSend(b, id)

\* The hub with clients whose sockets may hold a send up.
HubSlow == \E b \in DOMAIN bmsg : \E id \in bmsg[b].pending : HubSendBlocks(b, id)

WsEndpoint ==
    \E w \in DOMAIN ws :
        WsConnect(w) \/ WsWelcome(w) \/ WsReplay(w) \/ WsDisconnect(w) \/ WsClientGone(w)

InitBroadcast == InitWith(FALSE, MaxHazards, {TRUE})

NextBroadcast ==
    \/ WorkerStartup \/ BrokerDeliver \/ Handler \/ HazardousPublish
    \/ ApiStartup \/ BroadcastConsumer \/ Hub
    \/ WsOpen \/ WsEndpoint \/ TestAnomalyBroadcast \/ ForeignBroadcast

SpecBroadcast == InitBroadcast /\ [][NextBroadcast]_vars

\* The broadcast consumer, the hub and its WebSocket clients, with anomalies
\* arriving on the exchange.
InitHub == InitWith(FALSE, MaxAnomalies, {TRUE})

NextHub ==
    \/ ApiStartup \/ BroadcastConsumer \/ ExchangePublish \/ Hub
    \/ WsOpen \/ WsEndpoint

SpecHub == InitHub /\ [][NextHub]_vars

\* The same with fewer anomalies and with clients that hold a send up.
InitWave == InitWith(FALSE, MaxWaves, {TRUE})

NextWave ==
    \/ ApiStartup \/ BroadcastConsumer \/ ExchangePublish \/ Hub \/ HubSlow
    \/ WsOpen \/ WsEndpoint

SpecWave == InitWave /\ [][NextWave]_vars

\* The broadcast consumer alone, with payloads of every kind on the exchange
\* and no subscriber at the hub.
InitConsumer == InitWith(FALSE, MaxBroadcasts, {TRUE})

NextConsumer ==
    \/ ApiStartup \/ BroadcastConsumer \/ ExchangePublish \/ ForeignBroadcast
    \/ (\E b \in DOMAIN bmsg : OnMessage(b))

SpecConsumer == InitConsumer /\ [][NextConsumer]_vars

\* The broadcast consumer against a broker whose connections fail and drop.
\* The event loop runs every task that can run, a sleep ends, and the broker
\* comes back after each of its finitely many failures: the consumer's own
\* steps are weakly fair.
ConsumerRuns == BroadcastConsumer \/ BroadcastRetry \/ BroadcastRestored

NextReconnect ==
    \/ ApiStartup \/ ConsumerRuns \/ BroadcastSetupFails \/ BroadcastConnectionLost
    \/ ExchangePublish \/ (\E b \in DOMAIN bmsg : OnMessage(b)) \/ ApiShutdownDrain

SpecReconnect ==
    InitWith(TRUE, MaxAnomalies, {TRUE}) /\ [][NextReconnect]_vars /\ WF_vars(ConsumerRuns)

\* The hub and its clients over the API's whole life: lifespan shutdown, and
\* handlers that the server cancels.
InitHubShutdown == InitWith(FALSE, MaxWaves, {TRUE})

NextHubShutdown ==
    \/ ApiStartup \/ BroadcastConsumer \/ ExchangePublish \/ Hub
    \/ WsOpen \/ WsEndpoint \/ (\E w \in DOMAIN ws : WsCancelled(w))
    \/ ApiShutdownDrain \/ ApiShutdownFinish

SpecHubShutdown == InitHubShutdown /\ [][NextHubShutdown]_vars

\* ------------------------------------------------------------------ claims
Done(m) == msg[m].pc = "done"

InHandler(m) == msg[m].pc \in {"received", "write", "detect", "anomaly_write"}

StepOrder == <<"decode", "parse", "validate", "construct", "write", "detect", "anomaly_write">>

IsPrefix(t, u) == Len(t) <= Len(u) /\ \A i \in 1..Len(t) : t[i] = u[i]

Did(m, step) == \E i \in 1..Len(msg[m].trace) : msg[m].trace[i] = step

AllNull(data) == \A k \in PollutantSet : data[k] = None

\* C1: every message whose handler has ended has exactly one terminal
\* disposition, one ack or one reject without requeue: never both, never none,
\* never a requeue; a message not yet handled to the end has none.
C1_ExactlyOneDisposition ==
    \A m \in DOMAIN msg :
        /\ msg[m].requeues = 0
        /\ msg[m].acks + msg[m].nacks <= 1
        /\ Done(m) => msg[m].acks + msg[m].nacks = 1 /\ m \notin unacked
        /\ ~Done(m) => msg[m].acks + msg[m].nacks = 0
        /\ InHandler(m) <=> m \in unacked

C1_Witness ==
    \E m1, m2 \in DOMAIN msg :
        /\ Done(m1) /\ msg[m1].trace = <<"decode">>
        /\ Done(m2) /\ msg[m2].anomaly_write = "raise"

\* C2: a message whose reading write failed (returned false or raised) ends
\* rejected without requeue, and is not acked.
C2_WriteFailureRejects ==
    \A m \in DOMAIN msg :
        Done(m) /\ msg[m].write \in {"false", "raise"} =>
            msg[m].nacks = 1 /\ msg[m].acks = 0

\* C3: a message that ends after its anomaly was persisted has had the anomaly's
\* JSON form published to the broadcast exchange before its ack.
C3_PersistedAnomalyPublished ==
    \A m \in DOMAIN msg :
        Done(m) /\ msg[m].anomaly_write = "true" =>
            \E i \in 1..Len(exchange_log) :
                exchange_log[i] = AnomalyPayload("worker", TheValue(msg[m].anomaly).id)

\* Nothing is left to do for any message, broadcast or session.
Quiescent ==
    /\ rawQueue = <<>> /\ bqueue = <<>>
    /\ bcast = "consuming"
    /\ \A m \in DOMAIN msg : Done(m)
    /\ \A b \in DOMAIN bmsg : bmsg[b].pc = "done"
    /\ \A w \in DOMAIN ws : ws[w].pc \in {"open", "closed"}

Delivered(id, w) ==
    \E i \in 1..Len(ws[w].frames) :
        ws[w].frames[i].source = "worker" /\ ws[w].frames[i].id = id

\* C4: once nothing is left to do, every persisted anomaly has reached, in some
\* frame, every subscriber that was registered when it was persisted and is
\* still registered with its client still there.
C4_FanOutToSubscribers ==
    Quiescent =>
        \A m \in DOMAIN msg :
            msg[m].anomaly_write = "true" =>
                \A id \in msg[m].subscribers \cap active_connections :
                    ws[SessionOf(id)].alive =>
                        Delivered(TheValue(msg[m].anomaly).id, SessionOf(id))

\* C5: the steps of one message happen in the order decode, parse, validate,
\* construct, write, detect, anomaly write; nothing is written for a message that
\* failed decoding, parsing or validation; detection and the anomaly write
\* happen only after the reading write returned success.
C5_StepOrder ==
    /\ \A m \in DOMAIN msg :
        /\ IsPrefix(msg[m].trace, StepOrder)
        /\ Did(m, "write") =>
             DecodeOk(msg[m].body) /\ ParseOk(msg[m].body) /\ ValidateOk(msg[m].body)
        /\ msg[m].wrote => Did(m, "write")
        /\ Did(m, "detect") => msg[m].write = "true"
        /\ Did(m, "anomaly_write") => msg[m].write = "true" /\ msg[m].detect = "ok"
    /\ \A q \in air_quality :
        \E m \in DOMAIN msg :
            msg[m].wrote /\ ValidateOk(msg[m].body)
                /\ SameSeries(q, ReadingPoint(TheValue(msg[m].reading)))
    /\ \A a \in air_quality_anomalies :
        \E m \in DOMAIN msg :
            msg[m].write = "true" /\ msg[m].anomaly_write = "true"
                /\ a = AnomalyPoint(TheValue(msg[m].anomaly))

C5_Witness ==
    \E m1, m2 \in DOMAIN msg :
        /\ Done(m1) /\ msg[m1].trace = StepOrder /\ msg[m1].anomaly_write = "true"
        /\ Done(m2) /\ msg[m2].trace = <<"decode", "parse", "validate">>

\* C6: the timestamp of the reading the worker constructs is the worker's clock
\* at that moment, whatever timestamp the payload carried; the point persisted
\* for it carries that time (at the store's millisecond precision); the ingest
\* endpoint accepts a payload with a timestamp, and what it publishes has none.
C6_WorkerStampsTime ==
    /\ \A m \in DOMAIN msg :
        msg[m].reading # None =>
            /\ msg[m].stamped # None
            /\ TheValue(msg[m].reading).timestamp = TheValue(msg[m].stamped)
            /\ msg[m].wrote =>
                 \E q \in air_quality :
                    /\ q.latitude = TheValue(msg[m].reading).latitude
                    /\ q.longitude = TheValue(msg[m].reading).longitude
                    /\ q.time = TruncMs(TheValue(msg[m].stamped))
    /\ \A q \in air_quality :
        \E m \in DOMAIN msg : msg[m].wrote /\ q.time = TruncMs(TheValue(msg[m].stamped))
    /\ \A c \in DOMAIN call :
        /\ call[c].status = 422 <=> ~IngestRequestValid(call[c].raw)
        /\ call[c].pc = "done" /\ IngestRequestValid(call[c].raw) => call[c].status = 202

C6_Witness ==
    \E m \in DOMAIN msg, c \in DOMAIN call :
        /\ msg[m].wrote /\ Done(m)
        /\ msg[m].body.data.ts # None
        /\ TheValue(msg[m].body.data.ts) # TheValue(msg[m].stamped)
        /\ TheValue(msg[m].stamped) # TruncMs(TheValue(msg[m].stamped))
        /\ call[c].raw.ts # None /\ call[c].status = 202

\* C7: once the reading write has succeeded, the message ends acked and never
\* rejected, whatever the anomaly check or the anomaly write did, and the point
\* written for it is still in the store with the fields it wrote.
C7_LaterFailuresStillAck ==
    \A m \in DOMAIN msg :
        /\ Done(m) /\ msg[m].write = "true" => msg[m].acks = 1 /\ msg[m].nacks = 0
        /\ msg[m].wrote =>
             \E q \in air_quality :
                /\ SameSeries(q, ReadingPoint(TheValue(msg[m].reading)))
                /\ \A k \in NonNullFields(TheValue(msg[m].reading)) : q.fields[k] # None

C7_Witness ==
    \E m1, m2 \in DOMAIN msg :
        /\ Done(m1) /\ msg[m1].wrote /\ msg[m1].anomaly_write = "raise"
        /\ Done(m2) /\ msg[m2].wrote /\ msg[m2].detect = "raise"

C9_PrefetchBound ==
    /\ Cardinality(unacked) <= PREFETCH_COUNT
    /\ wpc = "consuming" => qos = PREFETCH_COUNT

C9_Witness == Cardinality(unacked) = PREFETCH_COUNT /\ rawQueue # <<>>

\* C10: a publish call makes at most 3 attempts; once an attempt has published it
\* makes no further attempt and returns success; it returns failure exactly when
\* all 3 attempts have failed.
C10_AtMostThreeAttempts ==
    \A c \in DOMAIN call :
        /\ call[c].started <= PublishRetries
        /\ ~call[c].retried_after_publish
        /\ call[c].pc = "done" /\ call[c].started > 0 =>
            /\ call[c].result = "true" <=> call[c].enqueued > 0
            /\ call[c].result = "false" <=>
                 call[c].started = PublishRetries /\ call[c].enqueued = 0

\* C11 as stated: a publish call fails only after more than 3 failed attempts.
C11_FailsOnlyAfterMoreThanThree ==
    \A c \in DOMAIN call :
        call[c].started > 0 /\ call[c].result = "false" => call[c].failures > PublishRetries

\* C11: a publish call whose attempts fail one after the other fails exactly
\* when 3 attempts have failed: the third failure ends the call with failure, no
\* fourth attempt is made, and with fewer than 3 failed attempts it has not
\* failed.
C11_FailsAfterThreeFailedAttempts ==
    \A c \in DOMAIN call :
        /\ call[c].failures <= PublishRetries
        /\ call[c].started > 0 =>
            (call[c].result = "false" <=> call[c].failures = PublishRetries)

C11_Witness ==
    \E c \in DOMAIN call :
        /\ call[c].started = PublishRetries
        /\ call[c].failures = PublishRetries
        /\ call[c].enqueued = 0
        /\ call[c].result = "false"

\* C12: the ingest endpoint answers a valid request with 202 exactly when the
\* publish reported success and with 503 exactly when it reported failure, the
\* missing pool included; it gives no answer before the publish has reported;
\* and with the endpoint and its publisher the only ones running, the store
\* holds nothing.
C12_AcceptedIffPublished ==
    /\ \A c \in DOMAIN call :
        call[c].endpoint /\ IngestRequestValid(call[c].raw) =>
            /\ call[c].status = 202 <=> call[c].result = "true"
            /\ call[c].status = 503 <=> call[c].result = "false"
            /\ call[c].status = 0 <=> call[c].result = "none"
            /\ call[c].result = "none" <=> call[c].pc # "done"
            /\ call[c].result = "true" => call[c].enqueued > 0
    /\ air_quality = {}
    /\ air_quality_anomalies = {}

C12_Witness ==
    /\ \E c \in DOMAIN call : call[c].status = 202 /\ call[c].result = "true"
    /\ \E c \in DOMAIN call :
        call[c].status = 503 /\ call[c].started = 0 /\ connection_pool = "none"

\* C13: a publisher that was waiting in acquire when the pool's shutdown drained
\* the queue is not left waiting on the drained pool, is never handed a
\* connection by that wait, and its publish fails.
C13_WaitersFailOnShutdown ==
    \A c \in DOMAIN call :
        /\ ~call[c].late_conn
        /\ api = "stopped" => ~call[c].waiting_at_close

InPool(conn, q) == \E j \in 1..Len(q) : q[j] = conn

\* C14: in every acquire scope, a connection found closed when it is taken from
\* the queue is not handed to the caller and not put back, while an open one is
\* handed over; when the scope ends, whichever way, a connection that is still
\* open is appended to the queue, or closed when the queue is full, and one
\* that is closed by then is not put back.
C14_AcquireScope ==
    [][\A c \in DOMAIN call :
        /\ call[c].pc = "get" /\ call'[c].pc # "get" /\ pool # <<>> =>
            LET top == pool[Len(pool)]
            IN /\ ~InPool(top, pool')
               /\ call'[c].conn = IF conn_state[top] = "open" THEN top ELSE 0
        /\ call[c].conn # 0 /\ call'[c].conn = 0 =>
            LET conn == call[c].conn
            IN IF conn_state[conn] # "open"
               THEN pool' = pool
               ELSE IF Len(pool) < POOL_MAX_SIZE
                    THEN pool' = Append(pool, conn) /\ conn_state'[conn] = "open"
                    ELSE pool' = pool /\ conn_state'[conn] = "closed"]_vars

C14_Witness ==
    \E c \in DOMAIN call :
        /\ call[c].discarded
        /\ call[c].result = "true"
        /\ \E lost \in Conns :
            /\ conn_state[lost] = "lost"
            /\ ~InPool(lost, pool)
        /\ \E back \in Conns : conn_state[back] = "open" /\ InPool(back, pool)

\* C15: after a payload serialization error the publisher makes no further
\* attempt: the call is over.
C15_SerializationErrorEndsCall ==
    \A c \in DOMAIN call : call[c].dumps_errors > 0 => call[c].pc = "done"

\* The ids connect has given out so far.
AssignedIds == UNION { ws[w].id : w \in DOMAIN ws }

\* C16: the ids connect has given out are exactly 0 .. counter - 1, each given to
\* one connection only (so each new id is larger than every earlier one and no
\* id comes back after a disconnect), and every registered id is one of them,
\* below the counter, and belongs to one connection.
C16_IdsIncreaseNeverReused ==
    /\ AssignedIds = 0..(connection_counter - 1)
    /\ \A w, v \in DOMAIN ws : w # v /\ ws[w].id # None => ws[w].id # ws[v].id
    /\ active_connections \subseteq AssignedIds
    /\ \A id \in active_connections : id < connection_counter

C16_Witness ==
    \E w, v \in DOMAIN ws :
        /\ ws[w].id = Some(0) /\ ws[w].pc = "closed" /\ 0 \notin active_connections
        /\ ws[v].id = Some(1) /\ 1 \in active_connections
        /\ connection_counter = 2

\* C17: when a broadcast is over, no subscriber of its snapshot whose send
\* failed is registered any more; and the broadcast removes an id only in the
\* step that follows its last send: while sends of the wave are pending the
\* broadcast's own steps leave the registry as it is.
C17_FailedReapedAfterWave ==
    [][\A b \in DOMAIN bmsg :
        /\ bmsg'[b].pc = "done" => bmsg'[b].failed \cap active_connections' = {}
        /\ bmsg'[b].failed \subseteq bmsg'[b].snapshot
        /\ bmsg[b].pc = "sending" /\ bmsg'[b] # bmsg[b] =>
            IF bmsg'[b].pc = "done"
            THEN /\ bmsg[b].pending = {}
                 /\ active_connections' = active_connections \ bmsg[b].failed
            ELSE active_connections' = active_connections]_vars

C17_Witness ==
    \E b \in DOMAIN bmsg :
        /\ bmsg[b].pc = "done"
        /\ bmsg[b].failed # {}
        /\ bmsg[b].snapshot \ bmsg[b].failed # {}
        /\ \E id \in bmsg[b].failed : ws[SessionOf(id)].pc # "closed"

\* The position of a frame's anomaly among the calls of broadcast_anomaly.
HandedOrder(frame) ==
    LET b == CHOOSE a \in DOMAIN bmsg :
                bmsg[a].payload.source = frame.source /\ bmsg[a].payload.id = frame.id
    IN bmsg[b].order

\* C18: the broadcast frames a subscriber has been sent are in the order in
\* which their anomalies were handed to broadcast_anomaly.
C18_FramesInHandedOrder ==
    \A w \in DOMAIN ws :
        \A i, j \in 1..Len(ws[w].frames) :
            /\ i < j
            /\ ws[w].frames[i].type = "none"
            /\ ws[w].frames[j].type = "none"
            => HandedOrder(ws[w].frames[i]) < HandedOrder(ws[w].frames[j])

\* C19: while one send of a wave is held up, every other pending send of the
\* wave can take place, and so can a connect: the lock is not held.
C19_NoSubscriberBlocksAnother ==
    \A b \in DOMAIN bmsg :
        bmsg[b].pc = "sending" =>
            /\ \A id \in bmsg[b].pending : ENABLED HubSend(b, id)
            /\ \A w \in DOMAIN ws : ws[w].pc = "accept" => ENABLED WsConnect(w)
            /\ bmsg[b].pending = {} => ENABLED HubReap(b)

C19_Witness ==
    \E b \in DOMAIN bmsg :
        /\ bmsg[b].pc = "sending"
        /\ bmsg[b].blocked # {}
        /\ \E id \in bmsg[b].snapshot \ bmsg[b].pending :
            /\ id \notin bmsg[b].failed
            /\ \E i \in 1..Len(ws[SessionOf(id)].frames) :
                ws[SessionOf(id)].frames[i] = BroadcastFrame(bmsg[b].payload)

\* C20: the first frame a subscriber is sent is the welcome frame, and every
\* other frame, replayed or live, comes after it.
C20_WelcomeFirst ==
    \A w \in DOMAIN ws :
        ws[w].frames # <<>> => ws[w].frames[1] = WelcomeFrame

\* C21: whenever a WebSocket connection's handler has ended, for any cause
\* (client disconnect, transport error, failure during welcome or replay,
\* cancellation at server shutdown), its subscriber id is not in the hub's
\* registry.
C21_EndedHandlerNotRegistered ==
    \A w \in DOMAIN ws :
        ws[w].pc = "closed" /\ ws[w].id # None
            => TheValue(ws[w].id) \notin active_connections

\* C22: once API shutdown has begun the hub is closed: no subscriber is
\* registered any more, and connect registers no new one.
C22_HubClosedAfterShutdown ==
    api \in {"closing", "stopped"} => active_connections = {}

\* C23: every frame a subscriber got that is not a connection_status, a
\* recent_anomaly or a pong frame, that is every frame of a live broadcast, is
\* of type new_anomaly.
C23_LiveFramesAreNewAnomaly ==
    \A w \in DOMAIN ws : \A i \in 1..Len(ws[w].frames) :
        ws[w].frames[i].type \notin {"connection_status", "recent_anomaly", "pong"}
            => ws[w].frames[i].type = "new_anomaly"

\* C24: on_message acks every message it was given, whatever its payload: its
\* handling ends with exactly one ack and no reject, nothing is delivered a
\* second time, and only payloads that pass the shape check reach the hub.
C24_ConsumerAlwaysAcks ==
    /\ \A b \in DOMAIN bmsg :
        /\ bmsg[b].pc = "done" => bmsg[b].acks = 1 /\ bmsg[b].nacks = 0
        /\ bmsg[b].pc # "done" => bmsg[b].acks = 0 /\ bmsg[b].nacks = 0
        /\ bmsg[b].handed => LooksLikeAnomaly(bmsg[b].payload)
    /\ Len(bmsg) + Len(bqueue) <= Len(exchange_log)

\* Messages that fail decoding, the shape check or the construction have been
\* handled, and so has one that went to the hub.
C24_Witness ==
    /\ \E b \in DOMAIN bmsg :
        /\ bmsg[b].pc = "done" /\ ~bmsg[b].handed
        /\ bmsg[b].payload.kind \in {"partial", "badjson", "nonanomaly"}
    /\ \E b \in DOMAIN bmsg : bmsg[b].pc = "done" /\ bmsg[b].handed

\* C25: after any loss of its broker connection the broadcast consumer, unless
\* cancelled, is eventually consuming again from a freshly declared and bound
\* queue; and it never has more than one connection open.
C25_ReconnectsWithOneConnection ==
    /\ [](consumer.open <= 1)
    /\ [](bcast = "consuming" => consumer.open = 1)
    /\ (bcast \in {"sleep", "restoring"}) ~> (bcast \in {"consuming", "cancelled"})

\* The consumer is consuming again after a loss.
C25_Witness ==
    consumer.losses > 0 /\ bcast = "consuming" /\ consumer.open = 1

\* C26: after a shutdown signal was delivered to the worker its consumer task
\* is cancelled and main ends, also while the consumer is connected and idle:
\* in a state where the signal was handled and the consumer sits idle in its
\* wait, main's gather has returned and its shutdown steps can be taken.
C26_SignalStopsIdleWorker ==
    stop_event /\ wpc = "consuming" /\ unacked = {} /\ rawQueue = <<>>
        => ENABLED WorkerMainShutdown

\* The checked parameters of a reading whose value is above the threshold.
Exceeding(reading) ==
    { k \in {"pm25", "pm10", "no2"} :
        reading[k] # None /\ \E v \in reading[k] : v > Threshold(k) }

\* The parameters checked before parameter k.
CheckedBefore(k) ==
    CASE k = "pm25" -> {}
      [] k = "pm10" -> {"pm25"}
      [] k = "no2" -> {"pm25", "pm10"}

\* C27: check_thresholds returns none when no checked pollutant has a value
\* strictly above its threshold, and otherwise one anomaly, for the first
\* exceeding parameter in the order pm25, pm10, no2, with that parameter's
\* value and the reading's timestamp and coordinates.
C27_FirstExceedingParameter ==
    \A m \in DOMAIN msg :
        msg[m].detect = "ok" =>
            LET reading == TheValue(msg[m].reading)
            IN /\ Cardinality(msg[m].anomaly) <= 1
               /\ msg[m].anomaly = None <=> Exceeding(reading) = {}
               /\ \A a \in msg[m].anomaly :
                    /\ a.parameter \in Exceeding(reading)
                    /\ CheckedBefore(a.parameter) \cap Exceeding(reading) = {}
                    /\ a.value = TheValue(reading[a.parameter])
                    /\ a.timestamp = reading.timestamp
                    /\ a.latitude = reading.latitude
                    /\ a.longitude = reading.longitude

\* A reading with PM2.5 at its threshold and two later parameters above theirs
\* gave the PM10 anomaly.
C27_Witness ==
    \E m \in DOMAIN msg :
        /\ msg[m].detect = "ok"
        /\ TheValue(msg[m].reading).pm25 = Some(threshold_pm25_hazardous)
        /\ Exceeding(TheValue(msg[m].reading)) = {"pm10", "no2"}
        /\ \E a \in msg[m].anomaly : a.parameter = "pm10"

\* C28: in every reachable state, every anomaly in the store has a persisted
\* reading with its timestamp, latitude and longitude whose value for the
\* anomaly's parameter is the anomaly's value and is above that parameter's
\* threshold.
C28_AnomalyHasItsReading ==
    \A a \in air_quality_anomalies :
        \E r \in air_quality :
            /\ r.time = a.time
            /\ r.latitude = a.latitude
            /\ r.longitude = a.longitude
            /\ r.fields[a.parameter] = Some(a.value)
            /\ a.value > Threshold(a.parameter)

\* C29: every reading in the store carries a geohash tag, of the storage
\* precision's length, equal to the code of its coordinates at that precision.
C29_EveryReadingTagged ==
    \A r \in air_quality :
        /\ r.geohash # None
        /\ \A tag \in r.geohash :
            /\ Len(tag) = geohash_precision_storage
            /\ tag = Encode(r.latitude, r.longitude, geohash_precision_storage)

\* Points of a box that geohash.encode accepts: its corners and the points on
\* a grid of 15 degrees inside it.
PointsIn(box) ==
    { pt \in ({box.min_lat, box.max_lat} \cup {x \in box.min_lat..box.max_lat : x % 15 = 0})
            \X ({box.min_lon, box.max_lon} \cup {y \in box.min_lon..box.max_lon : y % 15 = 0}) :
        ~EncodeRaises(2 * pt[1]) }

\* C30: the cover of a box is complete: for every box and precision, the cell
\* of every point inside the box is among the cells returned.
C30_CoverIsComplete ==
    \A i \in DOMAIN query :
        \A pt \in PointsIn(query[i].box) :
            Encode(pt[1], pt[2], query[i].precision) \in query[i].cells

Permuted(points, f) == [i \in DOMAIN points |-> points[f[i]]]

\* What a result says of its cells: the geohash, the count and the averages.
Cells(result) ==
    { [geohash |-> result[i].geohash, count |-> result[i].count, avg |-> result[i].avg] :
        i \in DOMAIN result }

\* The same without the values of the averages: which of them are null.
CellShapes(result) ==
    { [geohash |-> result[i].geohash, count |-> result[i].count,
       has |-> {k \in PollutantSet : result[i].avg[k] # None}] : i \in DOMAIN result }

\* The exact sum of pollutant k over the first n points.
RECURSIVE Total(_, _, _)
Total(points, k, n) ==
    IF n = 0 THEN 0
    ELSE Total(points, k, n - 1) + (IF points[n][k] # None THEN TheValue(points[n][k]) ELSE 0)

\* No floating-point sum over the points can round: every sum of some of their
\* values is a float.
SumsExact(points) ==
    \A k \in PollutantSet : Total(points, k, Len(points)) < Pow2(MantissaBits)

\* C31 as stated: aggregate_by_geohash is order-independent: for every list of
\* readings, precision and permutation of the list, the set of aggregated
\* points (geohash, count and averages per cell) is the same.
C31_OrderIndependent ==
    \A i \in DOMAIN query :
        query[i].max_cells = None =>
            \A f \in Permutations(DOMAIN query[i].points) :
                Cells(aggregate_by_geohash(Permuted(query[i].points, f),
                                           query[i].precision, None))
                    = Cells(query[i].result)

\* C31 amended: without a limit on the cells, the set of cells, each cell's
\* count and which of its averages are null are the same for every order of
\* the readings, and so are the averages whenever no floating-point sum
\* rounds; otherwise an average depends on the order in which the sum was
\* accumulated.
C31_OrderIndependentUpToRounding ==
    \A i \in DOMAIN query :
        query[i].max_cells = None =>
            \A f \in Permutations(DOMAIN query[i].points) :
                LET permuted == aggregate_by_geohash(Permuted(query[i].points, f),
                                                     query[i].precision, None)
                IN /\ CellShapes(permuted) = CellShapes(query[i].result)
                   /\ SumsExact(query[i].points) => Cells(permuted) = Cells(query[i].result)

\* Three readings of one cell whose sum rounds, and an order of them that
\* gives another average for the same cell and count; and, in another
\* aggregation, readings of two cells.
C31_Witness ==
    \E i \in DOMAIN query :
        /\ query[i].max_cells = None
        /\ Len(query[i].points) = MaxPoints
        /\ ~SumsExact(query[i].points)
        /\ Len(query[i].result) = 1
        /\ \E f \in Permutations(DOMAIN query[i].points) :
            LET permuted == aggregate_by_geohash(Permuted(query[i].points, f),
                                                 query[i].precision, None)
            IN /\ Cells(permuted) # Cells(query[i].result)
               /\ CellShapes(permuted) = CellShapes(query[i].result)

\* The point's geohash at the precision is gh.
InCell(point, precision, gh) ==
    ~EncodeRaises(2 * point.latitude) /\ Encode(point.latitude, point.longitude, precision) = gh

\* The readings of the list that lie in cell gh.
Members(points, precision, gh) == { n \in DOMAIN points : InCell(points[n], precision, gh) }

\* Those of the readings in members that have a value for k.
Contributing(points, k, members) == { n \in members : points[n][k] # None }

\* Their values added up in floating point, in the order of the list.
RECURSIVE FloatTotal(_, _, _, _)
FloatTotal(points, k, contributing, n) ==
    IF n = 0 THEN 0
    ELSE IF n \in contributing
    THEN FloatAdd(FloatTotal(points, k, contributing, n - 1), TheValue(points[n][k]))
    ELSE FloatTotal(points, k, contributing, n - 1)

\* Their exact sum.
RECURSIVE ExactTotal(_, _, _, _)
ExactTotal(points, k, contributing, n) ==
    IF n = 0 THEN 0
    ELSE ExactTotal(points, k, contributing, n - 1)
            + (IF n \in contributing THEN TheValue(points[n][k]) ELSE 0)

\* C32 as stated: for every cell returned and every pollutant k, avg_k is the
\* mean of the non-null k values of exactly the readings whose geohash at the
\* precision is the cell (null when there are none), and count is the number
\* of those readings whatever pollutants are null.  Averages are in hundredths.
C32_AverageIsMean ==
    \A i \in DOMAIN query : \A j \in DOMAIN query[i].result :
        LET q == query[i]
            c == q.result[j]
            members == Members(q.points, q.precision, c.geohash)
        IN /\ c.count = Cardinality(members)
           /\ \A k \in PollutantSet :
                LET contributing == Contributing(q.points, k, members)
                IN IF contributing = {} THEN c.avg[k] = None
                   ELSE /\ c.avg[k] # None
                        /\ TheValue(c.avg[k]) * Cardinality(contributing)
                            = 100 * ExactTotal(q.points, k, contributing, Len(q.points))

\* C32 amended: avg_k is the floating-point sum, accumulated in list order, of
\* the non-null k values of exactly the readings of the cell, divided by their
\* number and rounded to two decimals (null when there are none); count is the
\* number of the cell's readings whatever pollutants are null.
C32_AverageIsRoundedFloatMean ==
    \A i \in DOMAIN query : \A j \in DOMAIN query[i].result :
        LET q == query[i]
            c == q.result[j]
            members == Members(q.points, q.precision, c.geohash)
        IN /\ c.count = Cardinality(members)
           /\ \A k \in PollutantSet :
                LET contributing == Contributing(q.points, k, members)
                IN IF contributing = {} THEN c.avg[k] = None
                   ELSE c.avg[k] =
                        Some(RoundTo(FloatTotal(q.points, k, contributing, Len(q.points)),
                                     Cardinality(contributing), 100))

\* A cell of two readings out of three: one pollutant has a value in both and
\* a mean that is no whole number, another has a value in one of them, a third
\* has none.
C32_Witness ==
    \E i \in DOMAIN query : \E j \in DOMAIN query[i].result :
        LET q == query[i]
            c == q.result[j]
            members == Members(q.points, q.precision, c.geohash)
        IN /\ c.count = 2 /\ Len(q.points) = 3
           /\ Cardinality(Contributing(q.points, "pm25", members)) = 2
           /\ Cardinality(Contributing(q.points, "pm10", members)) = 1
           /\ c.avg["pm25"] # None /\ TheValue(c.avg["pm25"]) % 100 # 0
           /\ c.avg["no2"] = None

\* C33: when the store is unavailable or a store query raises, every query
\* operation (raw points in a box, density, anomalies, history, latest of a
\* cell) surfaces the error and the endpoint answers 503; a store error is
\* never reported as an empty list or a null "no data" result.
C33_StoreErrorsAnswer503 ==
    \A i \in DOMAIN query : query[i].store_failed => query[i].response.status = 503

\* The readings among raw_points that have a value for pollutant k.
ValueCount(raw_points, k) ==
    Cardinality({n \in DOMAIN raw_points : raw_points[n][k] # None})

\* C34: the density result's data_points_count is the maximum, over the
\* pollutants, of the number of readings of the box and window that have a
\* value for the pollutant, and each pollutant's average is the mean over that
\* pollutant's non-null values only.
C34_DensityCountIsMaxPollutantCount ==
    \A i \in DOMAIN query :
        (/\ query[i].endpoint = "pollution_density"
         /\ query[i].response.status = 200
         /\ query[i].response.body # None) =>
            LET density == TheValue(query[i].response.body)
                raw_points == raw_results(query[i].rows, Len(query[i].rows))
            IN /\ \A k \in PollutantSet :
                    density.data_points_count >= ValueCount(raw_points, k)
               /\ \E k \in PollutantSet :
                    density.data_points_count = ValueCount(raw_points, k)
               /\ \A k \in PollutantSet :
                    IF ValueCount(raw_points, k) = 0 THEN density.average[k] = None
                    ELSE /\ density.average[k] # None
                         /\ TheValue(density.average[k]).len = ValueCount(raw_points, k)

\* The steps of one publish attempt, in the order of the code (214-263).
AttemptSteps == <<"acquire", "get", "channel", "declare", "publish", "close">>

StepIndex(pc) == CHOOSE i \in 1..Len(AttemptSteps) : AttemptSteps[i] = pc

InAttempt(rec) == \E i \in 1..Len(AttemptSteps) : AttemptSteps[i] = rec.pc

\* The call has left the attempt it was in: it waits, starts the next attempt
\* or has returned.
AttemptLeft(a, b) ==
    \/ b.pc \in {"backoff", "done"}
    \/ b.pc = "acquire" /\ b.attempt = a.attempt + 1

\* C35: every step of a publish attempt is the next one of the order acquire,
\* take a connection, open a channel, declare the queue, publish, close the
\* channel; the message is placed on the queue by the publish step only; and
\* whichever step an attempt is left from, no channel of it is left open and
\* its connection is no longer held: it is back in the pool, or it is not open.
C35_AttemptOrderAndCleanup ==
    [][\A c \in DOMAIN call :
        LET a == call[c]
            b == call'[c]
        IN /\ b.enqueued # a.enqueued =>
                a.pc = "publish" /\ b.pc = "close" /\ b.enqueued = a.enqueued + 1
           /\ InAttempt(a) /\ (b.pc # a.pc \/ b.attempt # a.attempt) =>
                \/ /\ InAttempt(b)
                   /\ b.attempt = a.attempt
                   /\ StepIndex(b.pc) = StepIndex(a.pc) + 1
                   /\ b.conn # 0 <=> StepIndex(b.pc) >= StepIndex("channel")
                   /\ b.channel = "open" <=> StepIndex(b.pc) >= StepIndex("declare")
                   /\ b.conn # 0 => ~InPool(b.conn, pool')
                \/ /\ AttemptLeft(a, b)
                   /\ b.channel = "none"
                   /\ b.conn = 0
                   /\ a.conn # 0 =>
                        InPool(a.conn, pool') \/ conn_state'[a.conn] # "open"]_vars

\* A call that succeeded after a failed attempt which had opened a channel,
\* with its connection back in the pool.
C35_Witness ==
    \E c \in DOMAIN call :
        /\ call[c].pc = "done" /\ call[c].result = "true"
        /\ call[c].failures >= 1 /\ call[c].started >= 2
        /\ call[c].channel = "none" /\ call[c].conn = 0
        /\ \E back \in Conns : conn_state[back] = "open" /\ InPool(back, pool)
        /\ \A other \in DOMAIN call : call[other].conn = 0

\* C36: a publish call starts its next attempt only out of the backoff wait,
\* whatever made the attempt before it fail.
C36_BackoffBeforeEveryRetry ==
    [][\A c \in DOMAIN call :
        call'[c].attempt = call[c].attempt + 1 => call[c].pc = "backoff"]_vars

\* C37: a publish call that returned failure has placed no copy of its message
\* on the raw queue, and one that returned success has placed exactly one.
C37_FailureNothingSuccessOneCopy ==
    \A c \in DOMAIN call :
        call[c].pc = "done" =>
            /\ call[c].result = "false" => call[c].enqueued = 0
            /\ call[c].result = "true" => call[c].enqueued = 1

\* The calls whose acquire scope holds the connection.
Holders(conn) == { c \in DOMAIN call : call[c].conn = conn }

\* The connections the pool still has: idle in its queue or held by a scope.
InUse == { i \in Conns : InPool(i, pool) \/ Holders(i) # {} }

\* The publish calls that return in this step.
Returning == { c \in DOMAIN call' :
                /\ call'[c].pc = "done" /\ call'[c].result # "none"
                /\ c \in DOMAIN call => call[c].pc # "done" }

\* C38: the connections idle in the queue and those held by acquire scopes are
\* together at most the pool's capacity; no connection is held by two scopes,
\* held and idle at once, or twice in the queue; all of them are open or went
\* down, none closed by the pool.
C38_PoolBounded ==
    /\ Len(pool) + Cardinality({ c \in DOMAIN call : call[c].conn # 0 }) <= POOL_MAX_SIZE
    /\ \A i \in Conns :
        /\ Cardinality(Holders(i)) <= 1
        /\ Cardinality({ j \in 1..Len(pool) : pool[j] = i }) <= 1
        /\ ~(InPool(i, pool) /\ Holders(i) # {})
    /\ \A i \in InUse : conn_state[i] \in {"open", "lost"}
    /\ \A c \in DOMAIN call : call[c].conn # 0 => call[c].conn \in Conns

\* C38: after initialize no connection comes into being and none comes back
\* to the pool; and a publish that returns while the pool has none left
\* returns failure.
C38_NoConnectionAfterInitialize ==
    api # "down" =>
        LET had == InUse
        IN /\ \A i \in Conns : conn_state[i] = "absent" => conn_state'[i] = "absent"
           /\ InUse' \subseteq had
           /\ had = {} => \A c \in Returning : call'[c].result = "false"

\* C38: both parts.
C38_PoolNeverGrows ==
    C38_PoolBounded /\ [][C38_PoolBounded' /\ C38_NoConnectionAfterInitialize]_vars

\* The only connection initialize made went down and was discarded by the call
\* that took it; a later call made its three attempts on the empty pool and
\* failed.
C38_Witness ==
    /\ api = "running" /\ connection_pool = "pool"
    /\ InUse = {}
    /\ \E i \in Conns : conn_state[i] = "lost"
    /\ \E c \in DOMAIN call : call[c].discarded
    /\ \E c \in DOMAIN call :
        /\ ~call[c].discarded
        /\ call[c].pc = "done" /\ call[c].result = "false"
        /\ call[c].started = PublishRetries /\ call[c].enqueued = 0

\* C39: once the pool's close has completed and every publish has finished, no
\* connection of the pool is open.
C39_NoOpenConnectionAfterClose ==
    api = "stopped" /\ (\A c \in DOMAIN call : call[c].pc = "done") =>
        \A i \in Conns : conn_state[i] # "open"

\* The broadcast ends in this step: its sends are over and it reaps.
Reaping(b) == bmsg[b].pc = "sending" /\ bmsg'[b].pc = "done"

\* The endpoint of the session ends in this step.
Closing(w) == ws[w].pc # "closed" /\ ws'[w].pc = "closed"

\* The broadcast's frame is among those the subscriber was sent.
FrameSent(b, id) ==
    \E i \in 1..Len(ws[SessionOf(id)].frames) :
        ws[SessionOf(id)].frames[i] = BroadcastFrame(bmsg[b].payload)

\* C40: an id leaves the registry only when a broadcast that ends had it in
\* its snapshot and failed to send to it, or when its own endpoint ends; a
\* broadcast that ends leaves registered every subscriber it sent to and every
\* subscriber that is not in its snapshot; and a disconnect of an id that is
\* not registered, by an endpoint or by a broadcast, leaves the registry as it
\* is.
C40_ReapOnlyFailed ==
    [][/\ \A id \in active_connections \ active_connections' :
            \/ \E b \in DOMAIN bmsg :
                /\ Reaping(b)
                /\ id \in bmsg[b].snapshot /\ id \in bmsg[b].failed
                /\ ~FrameSent(b, id)
            \/ \E w \in DOMAIN ws : ws[w].id = Some(id) /\ Closing(w)
       /\ \A b \in DOMAIN bmsg :
            Reaping(b) =>
                /\ active_connections \ bmsg[b].snapshot \subseteq active_connections'
                /\ \A id \in bmsg[b].snapshot \cap active_connections :
                    FrameSent(b, id) => id \in active_connections'
                /\ bmsg[b].failed \cap active_connections = {} =>
                    active_connections' = active_connections
       /\ \A w \in DOMAIN ws :
            Closing(w) /\ ws[w].id \cap active_connections = {} =>
                active_connections' = active_connections]_vars

\* Two broadcasts are over that failed to send to a subscriber, which is gone
\* from the registry with its endpoint ended: a subscriber that connected
\* after the snapshot of the one, and was sent the frame of the other, is
\* registered.
C40_Witness ==
    \E b1, b2 \in DOMAIN bmsg :
        /\ b1 # b2
        /\ bmsg[b1].pc = "done" /\ bmsg[b2].pc = "done"
        /\ bmsg[b1].failed # {} /\ bmsg[b2].failed # {}
        /\ bmsg[b1].failed \cap active_connections = {}
        /\ \A id \in bmsg[b1].failed : ws[SessionOf(id)].pc = "closed"
        /\ \E id \in active_connections :
            /\ id \notin bmsg[b1].snapshot
            /\ id \in bmsg[b2].snapshot \ bmsg[b2].failed
            /\ FrameSent(b2, id)


====
